---- MODULE Spec2Model ----
(***************************************************************************)
(* Model of the yearly "wrapped" statistics engine of plex-unwrapped:      *)
(* StatsCalculator.calculateUserStats and the aggregators it calls         *)
(* (backend/src/routes/health.routes.ts, lines 205-864).                   *)
(*                                                                         *)
(* Numbers.  Durations and timestamps are integer seconds.  The code sums  *)
(* duration / 60 (minutes) in floating point; the model keeps the sums in  *)
(* seconds, so that "x minutes" is the rational x = seconds / 60 and every *)
(* comparison and rounding of minutes is done exactly on the seconds.      *)
(*                                                                         *)
(* Dates.  date-fns format() prints the local calendar date; the process   *)
(* time zone is taken to be UTC.  A formatted 'yyyy-MM-dd' string is the   *)
(* number yyyymmdd, whose numeric order is the string order of the code.   *)
(*                                                                         *)
(* Objects.  A JavaScript object used as a map is a sequence of entries in *)
(* the order Object.entries / Object.values enumerates them: integer-like  *)
(* keys first, in ascending numeric order, then the other string keys in   *)
(* insertion order.                                                        *)
(***************************************************************************)
EXTENDS Integers, Sequences, FiniteSets, TLC

(***************************************************************************)
(* Bounds of the checked input space.                                      *)
(***************************************************************************)
\* longest history drawn freely from the event pool
MaxLen == 3
\* longest catalogue history (distinct titles, one event each)
MaxCatalogue == 11

\* the longest free history given to two invocations in a row
MaxLenTwice == 2

(***************************************************************************)
(* Program constants.                                                      *)
(***************************************************************************)
BingeGapSeconds == 3600
TopMoviesN == 10
TopShowsN == 10
TopEpisodesN == 5
TopGenresN == 10
TopPeopleN == 5
TopDevicesN == 5
TopPlatformsN == 5

(***************************************************************************)
(* Sequence helpers.                                                       *)
(***************************************************************************)
Front(s) == SubSeq(s, 1, Len(s) - 1)

Last(s) == s[Len(s)]

\* slice(0, n + 1): one entry too many (a plausible slip)
SliceOneMore(s, n) == SubSeq(s, 1, IF Len(s) < n + 1 THEN Len(s) ELSE n + 1)

\* Array.prototype.slice(0, n)
Slice(s, n) == SubSeq(s, 1, IF Len(s) < n THEN Len(s) ELSE n)

\* index of the entry with key k in a table, 0 when there is none
IndexOfKey(tbl, k) ==
  IF \E i \in 1..Len(tbl) : tbl[i].key = k
  THEN CHOOSE i \in 1..Len(tbl) : tbl[i].key = k
  ELSE 0

\* obj[k] = v on an object with integer-like keys: a new key takes its place
\* in ascending numeric order, an existing key keeps its place
PutNumeric(tbl, k, v) ==
  LET i == IndexOfKey(tbl, k)
      p == Cardinality({j \in 1..Len(tbl) : tbl[j].key < k})
  IN IF i # 0 THEN [tbl EXCEPT ![i] = v]
     ELSE SubSeq(tbl, 1, p) \o <<v>> \o SubSeq(tbl, p + 1, Len(tbl))

\* obj[k] = v on an object with (non integer-like) string keys: a new key is
\* enumerated last
PutString(tbl, k, v) ==
  LET i == IndexOfKey(tbl, k)
  IN IF i # 0 THEN [tbl EXCEPT ![i] = v] ELSE Append(tbl, v)

\* Math.round(seconds / 60): the nearest integer, a half rounded up
RoundMinutes(seconds) == (seconds + 30) \div 60

\* Math.round(minutes / 60)
RoundHours(minutes) == (minutes + 30) \div 60

Max(a, b) == IF a > b THEN a ELSE b

\* the JavaScript value null (of a string-or-null field; no title is spelled so)
Null == "<null>"

(***************************************************************************)
(* Calendar (date-fns format / parse / differenceInDays, Date getters).    *)
(***************************************************************************)
\* days since 1970-01-01 of the calendar day of a Unix timestamp
EpochDay(t) == t \div 86400

\* the civil date [y, m, d] of a day number
CivilFromDays(z0) ==
  LET z == z0 + 719468
      era == z \div 146097
      doe == z - era * 146097
      yoe == (doe - doe \div 1460 + doe \div 36524 - doe \div 146096) \div 365
      doy == doe - (365 * yoe + yoe \div 4 - yoe \div 100)
      mp == (5 * doy + 2) \div 153
      d == doy - (153 * mp + 2) \div 5 + 1
      m == IF mp < 10 THEN mp + 3 ELSE mp - 9
  IN [y |-> yoe + era * 400 + (IF m <= 2 THEN 1 ELSE 0), m |-> m, d |-> d]

\* the day number of a civil date
DaysFromCivil(y0, m, d) ==
  LET y == IF m <= 2 THEN y0 - 1 ELSE y0
      era == y \div 400
      yoe == y - era * 400
      doy == (153 * (IF m > 2 THEN m - 3 ELSE m + 9) + 2) \div 5 + d - 1
      doe == yoe * 365 + yoe \div 4 - yoe \div 100 + doy
  IN era * 146097 + doe - 719468

\* format(new Date(started * 1000), 'yyyy-MM-dd'), as the number yyyymmdd
FormatDay(t) ==
  LET c == CivilFromDays(EpochDay(t)) IN c.y * 10000 + c.m * 100 + c.d

\* parse(s, 'yyyy-MM-dd', new Date()): local midnight of the date, as a day number
ParseDay(s) == DaysFromCivil(s \div 10000, (s \div 100) % 100, s % 100)

\* differenceInDays(later, earlier) of two local midnights
DifferenceInDays(later, earlier) == later - earlier

\* format(new Date(started * 1000), 'yyyy-MM'), as the number yyyymm
FormatMonth(t) ==
  LET c == CivilFromDays(EpochDay(t)) IN c.y * 100 + c.m

MonthNames ==
  <<"January", "February", "March", "April", "May", "June", "July",
    "August", "September", "October", "November", "December">>

\* format(new Date(started * 1000), 'MMMM')
FormatMonthName(t) == MonthNames[CivilFromDays(EpochDay(t)).m]

dayNames ==
  <<"Sunday", "Monday", "Tuesday", "Wednesday", "Thursday", "Friday", "Saturday">>

\* new Date(started * 1000).getDay(): 0 is Sunday; 1970-01-01 was a Thursday
GetDay(t) == (EpochDay(t) + 4) % 7

\* new Date(started * 1000).getHours()
GetHours(t) == (t % 86400) \div 3600

(***************************************************************************)
(* Folds shared by the aggregators.                                        *)
(***************************************************************************)
\* history.filter((r) => r.media_type === mt)
OfMediaType(history, mt) ==
  LET Is(r) == r.media_type = mt IN SelectSeq(history, Is)

\* history.reduce((sum, r) => sum + r.duration / 60, 0), in seconds
RECURSIVE SumDuration(_)
SumDuration(history) ==
  IF history = <<>> THEN 0
  ELSE SumDuration(Front(history)) + Last(history).duration

\* keys.forEach((k) => { counts[k] = (counts[k] || 0) + 1 })
RECURSIVE CountKeys(_, _)
CountKeys(keys, numeric) ==
  IF keys = <<>> THEN <<>>
  ELSE LET prev == CountKeys(Front(keys), numeric)
           k == Last(keys)
           i == IndexOfKey(prev, k)
           v == [key |-> k, count |-> IF i = 0 THEN 1 ELSE prev[i].count + 1]
       IN IF numeric THEN PutNumeric(prev, k, v) ELSE PutString(prev, k, v)

\* the comparator (a, b) => b.count - a.count (also b.plays - a.plays)
CompareCount(a, b) == b.count - a.count

\* genres ranked by play count instead of minutes (a plausible slip)
CompareMinutesByCount(a, b) == b.count - a.count

\* the genre comparator ([, a], [, b]) => b.minutes - a.minutes, on the
\* unrounded sums
CompareMinutes(a, b) == b.seconds - a.seconds

\* the day comparator (a, b) => b.minutes - a.minutes, on the unrounded sums
CompareDayMinutes(a, b) == b.seconds - a.seconds

\* the comparator (a, b) => a.started - b.started
CompareStarted(a, b) == a.started - b.started

\* the months compared the other way round (a plausible slip)
CompareMonthDescending(a, b) == b.month - a.month

\* the comparator (a, b) => a.month.localeCompare(b.month)
CompareMonth(a, b) == a.month - b.month

\* the comparator function passed to sort, by name
Compare(cmp, a, b) ==
  CASE cmp = "count" -> CompareCount(a, b)
    [] cmp = "minutes" -> CompareMinutes(a, b)
    [] cmp = "dayMinutes" -> CompareDayMinutes(a, b)
    [] cmp = "started" -> CompareStarted(a, b)
    [] cmp = "month" -> CompareMonth(a, b)

\* Array.prototype.sort(cmp) with a consistent comparator is a stable sort:
\* s[i] ends up behind every element that compares smaller and behind the
\* earlier elements that compare equal
SortBy(s, cmp) ==
  LET Pos(i) ==
        1 + Cardinality({j \in 1..Len(s) :
                           \/ Compare(cmp, s[j], s[i]) < 0
                           \/ Compare(cmp, s[j], s[i]) = 0 /\ j < i})
  IN [p \in 1..Len(s) |-> s[CHOOSE i \in 1..Len(s) : Pos(i) = p]]

\* Array.from(new Set(xs)).sort() for the formatted days of a history
SortedDays(history) ==
  LET S == {FormatDay(history[i].started) : i \in 1..Len(history)}
  IN [p \in 1..Cardinality(S) |->
        CHOOSE x \in S : Cardinality({y \in S : y < x}) = p - 1]

(***************************************************************************)
(* calculateBasicStats                                                     *)
(***************************************************************************)
\* totalPlays taken from the distinct rating keys instead of the events (a
\* plausible slip)
calculateBasicStatsDistinctPlays(history) ==
  LET movies == OfMediaType(history, "movie")
      episodes == OfMediaType(history, "episode")
  IN [totalWatchTimeMinutes |-> RoundMinutes(SumDuration(history)),
      totalPlays |-> Cardinality({history[i].rating_key : i \in 1..Len(history)}),
      totalMovies |-> Len(movies),
      totalTvEpisodes |-> Len(episodes),
      uniqueMovies |->
        Cardinality({movies[i].rating_key : i \in 1..Len(movies)}),
      uniqueShows |->
        Cardinality({episodes[i].grandparent_rating_key : i \in 1..Len(episodes)}),
      daysActive |->
        Cardinality({FormatDay(history[i].started) : i \in 1..Len(history)})]

calculateBasicStats(history) ==
  LET movies == OfMediaType(history, "movie")
      episodes == OfMediaType(history, "episode")
  IN [totalWatchTimeMinutes |-> RoundMinutes(SumDuration(history)),
      totalPlays |-> Len(history),
      totalMovies |-> Len(movies),
      totalTvEpisodes |-> Len(episodes),
      uniqueMovies |->
        Cardinality({movies[i].rating_key : i \in 1..Len(movies)}),
      uniqueShows |->
        Cardinality({episodes[i].grandparent_rating_key : i \in 1..Len(episodes)}),
      daysActive |->
        Cardinality({FormatDay(history[i].started) : i \in 1..Len(history)})]

(***************************************************************************)
(* calculateViewingPatterns                                                *)
(***************************************************************************)
\* the first entry taken without sorting by count (a plausible slip)
MostFrequentUnsorted(counts, fallback) ==
  IF counts = <<>> THEN fallback ELSE counts[1].key

\* Object.entries(counts).sort(([, a], [, b]) => b - a)[0]?.[0] || fallback
MostFrequent(counts, fallback) ==
  IF counts = <<>> THEN fallback ELSE SortBy(counts, "count")[1].key

\* a later day that no longer breaks the streak (a plausible slip of diff === 1)
AnyLaterDay(diff) == diff >= 1

\* diff === 1: the day right after the previous active day
ConsecutiveDay(diff) == diff = 1

\* the streak loop after its iterations i = 1 .. n (0-based i of the code)
RECURSIVE StreakLoop(_, _)
StreakLoop(sortedDays, n) ==
  IF n = 0 THEN [longestStreak |-> 0, currentStreak |-> 1]
  ELSE LET st == StreakLoop(sortedDays, n - 1)
           prevDay == ParseDay(sortedDays[n])
           currDay == ParseDay(sortedDays[n + 1])
           diff == DifferenceInDays(currDay, prevDay)
       IN IF ConsecutiveDay(diff)
          THEN [st EXCEPT !.currentStreak = @ + 1]
          ELSE [longestStreak |-> Max(st.longestStreak, st.currentStreak),
                currentStreak |-> 1]

\* the streak without the Math.max after the loop (a plausible slip)
LongestStreakInsideLoopOnly(history) ==
  LET sortedDays == SortedDays(history)
      st == StreakLoop(sortedDays, IF Len(sortedDays) = 0 THEN 0 ELSE Len(sortedDays) - 1)
  IN st.longestStreak

LongestStreak(history) ==
  LET sortedDays == SortedDays(history)
      st == StreakLoop(sortedDays, IF Len(sortedDays) = 0 THEN 0 ELSE Len(sortedDays) - 1)
  IN Max(st.longestStreak, st.currentStreak)

\* episodes.forEach((ep) => groupedByShow[key].push(ep)), key an integer string
RECURSIVE GroupByShow(_)
GroupByShow(episodes) ==
  IF episodes = <<>> THEN <<>>
  ELSE LET prev == GroupByShow(Front(episodes))
           ep == Last(episodes)
           k == ep.grandparent_rating_key
           i == IndexOfKey(prev, k)
           v == [key |-> k,
                 eps |-> IF i = 0 THEN <<ep>> ELSE Append(prev[i].eps, ep)]
       IN PutNumeric(prev, k, v)

\* a gap of exactly one hour already ends the binge (a plausible slip of >)
BingeGapReached(gap) == gap >= BingeGapSeconds

\* gap > 3600: the next episode starts more than one hour after this one stopped
BingeGapExceeded(gap) == gap > BingeGapSeconds

\* currentBinge > longestBingeMinutes, currentBinge in seconds
BingeBeats(currentSeconds, longestBingeMinutes) ==
  currentSeconds > 60 * longestBingeMinutes

\* the loop body without its else branch: the session still open at the last
\* episode is never compared (a plausible slip)
BingeStepNoLast(sorted, n, st) ==
  LET cur == st.currentBinge + sorted[n].duration
      better == [currentBinge |-> cur,
                 longestBingeMinutes |-> RoundMinutes(cur),
                 longestBingeShow |-> sorted[n].grandparent_title]
      same == [st EXCEPT !.currentBinge = cur]
  IN IF n < Len(sorted)
     THEN IF BingeGapExceeded(sorted[n + 1].started - sorted[n].stopped)
          THEN [(IF BingeBeats(cur, st.longestBingeMinutes) THEN better ELSE same)
                  EXCEPT !.currentBinge = 0]
          ELSE same
     ELSE same

\* one iteration (i = n - 1) of the inner for loop, from the state st =
\* [currentBinge, longestBingeMinutes, longestBingeShow]
BingeStep(sorted, n, st) ==
  LET cur == st.currentBinge + sorted[n].duration
      better == [currentBinge |-> cur,
                 longestBingeMinutes |-> RoundMinutes(cur),
                 longestBingeShow |-> sorted[n].grandparent_title]
      same == [st EXCEPT !.currentBinge = cur]
  IN IF n < Len(sorted)
     THEN IF BingeGapExceeded(sorted[n + 1].started - sorted[n].stopped)
          THEN [(IF BingeBeats(cur, st.longestBingeMinutes) THEN better ELSE same)
                  EXCEPT !.currentBinge = 0]
          ELSE same
     ELSE IF BingeBeats(cur, st.longestBingeMinutes) THEN better ELSE same

\* the inner for loop of one show after its iterations 0 .. n-1; b is the
\* state it starts from (let currentBinge = 0)
RECURSIVE BingeLoop(_, _, _)
BingeLoop(sorted, n, b) ==
  IF n = 0 THEN [b EXCEPT !.currentBinge = 0]
  ELSE BingeStep(sorted, n, BingeLoop(sorted, n - 1, b))

\* Object.entries(groupedByShow).forEach(...) after its first n shows
RECURSIVE BingeShows(_, _)
BingeShows(groups, n) ==
  IF n = 0
  THEN [currentBinge |-> 0, longestBingeMinutes |-> 0, longestBingeShow |-> Null]
  ELSE LET sorted == SortBy(groups[n].eps, "started")
       IN BingeLoop(sorted, Len(sorted), BingeShows(groups, n - 1))

\* hourCounts kept in first-seen order, as a Map or a string-keyed object
\* would keep it (a plausible slip)
HourCountsFirstSeen(history) ==
  CountKeys([i \in 1..Len(history) |-> GetHours(history[i].started)], FALSE)

\* hourCounts: Record<number, number>, enumerated in ascending hour order
HourCounts(history) ==
  CountKeys([i \in 1..Len(history) |-> GetHours(history[i].started)], TRUE)

calculateViewingPatterns(history) ==
  LET monthCounts ==
        CountKeys([i \in 1..Len(history) |-> FormatMonthName(history[i].started)], FALSE)
      dayOfWeekCounts ==
        CountKeys([i \in 1..Len(history) |-> dayNames[GetDay(history[i].started) + 1]], FALSE)
      hourCounts == HourCounts(history)
      groupedByShow == GroupByShow(OfMediaType(history, "episode"))
      binge == BingeShows(groupedByShow, Len(groupedByShow))
  IN [mostActiveMonth |-> MostFrequent(monthCounts, "January"),
      mostActiveDayOfWeek |-> MostFrequent(dayOfWeekCounts, "Saturday"),
      mostActiveHour |-> MostFrequent(hourCounts, 20),
      longestStreakDays |-> LongestStreak(history),
      longestBingeMinutes |-> binge.longestBingeMinutes,
      longestBingeShow |-> binge.longestBingeShow]

(***************************************************************************)
(* calculateTopContent                                                     *)
(***************************************************************************)
\* moviePlays: Record<number, {count, duration, record}>, keyed by rating_key
RECURSIVE MoviePlays(_)
MoviePlays(movies) ==
  IF movies = <<>> THEN <<>>
  ELSE LET prev == MoviePlays(Front(movies))
           r == Last(movies)
           i == IndexOfKey(prev, r.rating_key)
           old == IF i = 0 THEN [key |-> r.rating_key, count |-> 0, duration |-> 0, record |-> r]
                  ELSE prev[i]
       IN PutNumeric(prev, r.rating_key,
                     [old EXCEPT !.count = @ + 1, !.duration = @ + r.duration])

\* showPlays: Record<number, {count, duration, episodes, record}>, keyed by
\* grandparent_rating_key
RECURSIVE ShowPlays(_)
ShowPlays(episodes) ==
  IF episodes = <<>> THEN <<>>
  ELSE LET prev == ShowPlays(Front(episodes))
           r == Last(episodes)
           k == r.grandparent_rating_key
           i == IndexOfKey(prev, k)
           old == IF i = 0
                  THEN [key |-> k, count |-> 0, duration |-> 0, episodes |-> {}, record |-> r]
                  ELSE prev[i]
       IN PutNumeric(prev, k,
                     [old EXCEPT !.count = @ + 1, !.duration = @ + r.duration,
                                 !.episodes = @ \cup {r.rating_key}])

\* episodePlays: Record<number, {count, record}>, keyed by rating_key
RECURSIVE EpisodePlays(_)
EpisodePlays(episodes) ==
  IF episodes = <<>> THEN <<>>
  ELSE LET prev == EpisodePlays(Front(episodes))
           r == Last(episodes)
           i == IndexOfKey(prev, r.rating_key)
           old == IF i = 0 THEN [key |-> r.rating_key, count |-> 0, record |-> r]
                  ELSE prev[i]
       IN PutNumeric(prev, r.rating_key, [old EXCEPT !.count = @ + 1])

TopMovies(history) ==
  LET top == Slice(SortBy(MoviePlays(OfMediaType(history, "movie")), "count"),
                   TopMoviesN)
  IN [i \in 1..Len(top) |->
        [title |-> top[i].record.title,
         plays |-> top[i].count,
         durationMinutes |-> RoundMinutes(top[i].duration),
         ratingKey |-> top[i].record.rating_key]]

TopShows(history) ==
  LET top == Slice(SortBy(ShowPlays(OfMediaType(history, "episode")), "count"),
                   TopShowsN)
  IN [i \in 1..Len(top) |->
        [title |-> top[i].record.grandparent_title,
         plays |-> top[i].count,
         episodes |-> Cardinality(top[i].episodes),
         durationMinutes |-> RoundMinutes(top[i].duration),
         ratingKey |-> top[i].record.grandparent_rating_key]]

TopEpisodes(history) ==
  LET top == Slice(SortBy(EpisodePlays(OfMediaType(history, "episode")), "count"),
                   TopEpisodesN)
  IN [i \in 1..Len(top) |->
        [title |-> top[i].record.title,
         show |-> top[i].record.grandparent_title,
         plays |-> top[i].count]]

calculateTopContent(history) ==
  [topMovies |-> TopMovies(history),
   topShows |-> TopShows(history),
   topEpisodes |-> TopEpisodes(history)]

(***************************************************************************)
(* calculateTopGenres, calculateTopPeople                                  *)
(***************************************************************************)
\* history.forEach((r) => (r[field] || []).forEach((name) => ...)): the
\* (name, record) pairs in the order the nested loops visit them
RECURSIVE Mentions(_, _)
Mentions(history, field) ==
  IF history = <<>> THEN <<>>
  ELSE LET r == Last(history)
       IN Mentions(Front(history), field) \o
          [j \in 1..Len(r[field]) |-> [name |-> r[field][j], record |-> r]]

\* genreStats: Record<string, {count, minutes}>
RECURSIVE GenreStats(_)
GenreStats(mentions) ==
  IF mentions = <<>> THEN <<>>
  ELSE LET prev == GenreStats(Front(mentions))
           m == Last(mentions)
           i == IndexOfKey(prev, m.name)
           old == IF i = 0 THEN [key |-> m.name, count |-> 0, seconds |-> 0] ELSE prev[i]
       IN PutString(prev, m.name,
                    [old EXCEPT !.count = @ + 1, !.seconds = @ + m.record.duration])

\* the quotient scaled by 1000 instead of 100 (a plausible slip)
PercentageTimesTen(seconds, totalSeconds) ==
  IF totalSeconds = 0 THEN Null
  ELSE (20000 * seconds + totalSeconds) \div (2 * totalSeconds)

\* parseFloat(((minutes / totalMinutes) * 100).toFixed(1)), in tenths of a
\* percent; a zero total makes the quotient NaN or Infinity
Percentage(seconds, totalSeconds) ==
  IF totalSeconds = 0 THEN Null
  ELSE (2000 * seconds + totalSeconds) \div (2 * totalSeconds)

calculateTopGenres(history) ==
  LET totalSeconds == SumDuration(history)
      top == Slice(SortBy(GenreStats(Mentions(history, "genres")), "minutes"),
                   TopGenresN)
  IN [i \in 1..Len(top) |->
        [genre |-> top[i].key,
         count |-> top[i].count,
         minutes |-> RoundMinutes(top[i].seconds),
         percentage |-> Percentage(top[i].seconds, totalSeconds)]]

\* Set.add on a Set enumerated in insertion order
AddToSet(seq, x) ==
  IF \E i \in 1..Len(seq) : seq[i] = x THEN seq ELSE Append(seq, x)

\* actorCounts / directorCounts: Record<string, {count, titles}>
RECURSIVE PersonCounts(_)
PersonCounts(mentions) ==
  IF mentions = <<>> THEN <<>>
  ELSE LET prev == PersonCounts(Front(mentions))
           m == Last(mentions)
           i == IndexOfKey(prev, m.name)
           old == IF i = 0 THEN [key |-> m.name, count |-> 0, titles |-> <<>>] ELSE prev[i]
       IN PutString(prev, m.name,
                    [old EXCEPT !.count = @ + 1,
                                !.titles = AddToSet(@, m.record.title)])

TopPeople(history, field) ==
  LET top == Slice(SortBy(PersonCounts(Mentions(history, field)), "count"),
                   TopPeopleN)
  IN [i \in 1..Len(top) |->
        [name |-> top[i].key,
         count |-> top[i].count,
         titles |-> Slice(top[i].titles, 5)]]

calculateTopPeople(history) ==
  [topActors |-> TopPeople(history, "actors"),
   topDirectors |-> TopPeople(history, "directors")]

(***************************************************************************)
(* calculateDeviceStats                                                    *)
(* A player or platform name is a sequence of pieces, a hyphen being the   *)
(* piece "-", so that `${player}-${platform}` and split('-') are modelled  *)
(* by what they do to the name.                                            *)
(***************************************************************************)
\* `${r.player}-${r.platform}`
DeviceKey(r) == r.player \o <<"-">> \o r.platform

\* device.split('-')[0]
SplitFirst(key) ==
  LET hy == {i \in 1..Len(key) : key[i] = "-"}
  IN IF hy = {} THEN key
     ELSE SubSeq(key, 1, (CHOOSE i \in hy : \A j \in hy : i <= j) - 1)

\* deviceStats: Record<string, {plays, minutes, platform}>
RECURSIVE DeviceStats(_)
DeviceStats(history) ==
  IF history = <<>> THEN <<>>
  ELSE LET prev == DeviceStats(Front(history))
           r == Last(history)
           k == DeviceKey(r)
           i == IndexOfKey(prev, k)
           old == IF i = 0 THEN [key |-> k, count |-> 0, seconds |-> 0, platform |-> r.platform]
                  ELSE prev[i]
       IN PutString(prev, k, [old EXCEPT !.count = @ + 1, !.seconds = @ + r.duration])

\* platformStats: Record<string, {plays, minutes}>
RECURSIVE PlatformStats(_)
PlatformStats(history) ==
  IF history = <<>> THEN <<>>
  ELSE LET prev == PlatformStats(Front(history))
           r == Last(history)
           i == IndexOfKey(prev, r.platform)
           old == IF i = 0 THEN [key |-> r.platform, count |-> 0, seconds |-> 0] ELSE prev[i]
       IN PutString(prev, r.platform,
                    [old EXCEPT !.count = @ + 1, !.seconds = @ + r.duration])

\* the resolution taken as it is, without the 'unknown' default (a plausible
\* slip)
ResolutionOfRaw(r) == r.stream_video_resolution

\* r.stream_video_resolution || 'unknown'
ResolutionOf(r) ==
  IF r.stream_video_resolution = "" THEN "unknown" ELSE r.stream_video_resolution

\* the quality counters and the resolutions table (a JSON object: key -> count)
QualityStats(history) ==
  LET N(P(_)) == Cardinality({i \in 1..Len(history) : P(history[i])})
      IsTranscode(r) == r.transcode_decision = "transcode"
      IsCopy(r) == r.transcode_decision # "transcode" /\ r.transcode_decision = "copy"
      IsOther(r) == r.transcode_decision # "transcode" /\ r.transcode_decision # "copy"
  IN [directPlay |-> N(IsOther),
      transcode |-> N(IsTranscode),
      directStream |-> N(IsCopy),
      resolutions |->
        [res \in {ResolutionOf(history[i]) : i \in 1..Len(history)} |->
           Cardinality({i \in 1..Len(history) : ResolutionOf(history[i]) = res})]]

calculateDeviceStats(history) ==
  LET devs == Slice(SortBy(DeviceStats(history), "count"), TopDevicesN)
      plats == Slice(SortBy(PlatformStats(history), "count"), TopPlatformsN)
  IN [topDevices |->
        [i \in 1..Len(devs) |->
           [device |-> SplitFirst(devs[i].key),
            platform |-> devs[i].platform,
            plays |-> devs[i].count,
            minutes |-> RoundMinutes(devs[i].seconds)]],
      topPlatforms |->
        [i \in 1..Len(plats) |->
           [platform |-> plats[i].key,
            plays |-> plats[i].count,
            minutes |-> RoundMinutes(plats[i].seconds)]],
      qualityStats |-> QualityStats(history)]

(***************************************************************************)
(* calculateMonthlyStats                                                   *)
(***************************************************************************)
\* monthlyData: Record<string, {plays, minutes}>, keyed by `${month}|${monthName}`
RECURSIVE MonthlyData(_)
MonthlyData(history) ==
  IF history = <<>> THEN <<>>
  ELSE LET prev == MonthlyData(Front(history))
           r == Last(history)
           k == <<FormatMonth(r.started), FormatMonthName(r.started)>>
           i == IndexOfKey(prev, k)
           old == IF i = 0 THEN [key |-> k, plays |-> 0, seconds |-> 0] ELSE prev[i]
       IN PutString(prev, k, [old EXCEPT !.plays = @ + 1, !.seconds = @ + r.duration])

calculateMonthlyStats(history) ==
  LET data == MonthlyData(history)
      mapped == [i \in 1..Len(data) |->
                   [month |-> data[i].key[1],
                    monthName |-> data[i].key[2],
                    plays |-> data[i].plays,
                    minutes |-> RoundMinutes(data[i].seconds)]]
  IN SortBy(mapped, "month")

(***************************************************************************)
(* calculateFunStats                                                       *)
(***************************************************************************)
\* dayStats: Record<string, {minutes, date}>, keyed by the formatted day
RECURSIVE DayStats(_)
DayStats(history) ==
  IF history = <<>> THEN <<>>
  ELSE LET prev == DayStats(Front(history))
           r == Last(history)
           k == FormatDay(r.started)
           i == IndexOfKey(prev, k)
           old == IF i = 0 THEN [key |-> k, seconds |-> 0, date |-> r.started] ELSE prev[i]
       IN PutString(prev, k, [old EXCEPT !.seconds = @ + r.duration])

calculateFunStats(history) ==
  LET contentPlays == CountKeys([i \in 1..Len(history) |-> history[i].rating_key], TRUE)
      sorted == SortBy(history, "started")
      days == SortBy(DayStats(history), "dayMinutes")
  IN [percentageOfLibraryWatched |-> 0,
      totalSeasonsCompleted |-> 0,
      rewatches |->
        Cardinality({i \in 1..Len(contentPlays) : contentPlays[i].count > 1}),
      firstWatchTitle |-> IF sorted = <<>> THEN Null ELSE sorted[1].title,
      firstWatchDate |-> IF sorted = <<>> THEN Null ELSE sorted[1].started,
      lastWatchTitle |-> IF sorted = <<>> THEN Null ELSE Last(sorted).title,
      lastWatchDate |-> IF sorted = <<>> THEN Null ELSE Last(sorted).started,
      mostMemorableDayDate |-> IF days = <<>> THEN Null ELSE days[1].date,
      mostMemorableDayMinutes |-> IF days = <<>> THEN 0 ELSE RoundMinutes(days[1].seconds)]

(***************************************************************************)
(* generateFunFacts, generateBadges                                        *)
(* overseerrStats is Undefined or a record with totalRequests and          *)
(* averageApprovalTimeHours.  A fact is its rule name with the values the  *)
(* template prints.                                                        *)
(***************************************************************************)
Undefined == [defined |-> FALSE]

OverseerrStats(totalRequests, averageApprovalTimeHours) ==
  [defined |-> TRUE, totalRequests |-> totalRequests,
   averageApprovalTimeHours |-> averageApprovalTimeHours]

\* facts.push(...) when the rule's condition holds
FactIf(cond, fact) == IF cond THEN <<fact>> ELSE <<>>

\* the movie rule chained to the episode rule with else if (a plausible slip)
generateFunFactsElseIf(basicStats, patterns, overseerrStats) ==
  FactIf(patterns.longestBingeMinutes > 180,
         [name |-> "Marathon Master",
          args |-> <<patterns.longestBingeShow, RoundHours(patterns.longestBingeMinutes)>>])
  \o FactIf(patterns.mostActiveHour >= 22 \/ patterns.mostActiveHour <= 4,
            [name |-> "Night Owl", args |-> <<patterns.mostActiveHour>>])
  \o FactIf(patterns.mostActiveHour >= 5 /\ patterns.mostActiveHour <= 8,
            [name |-> "Early Bird", args |-> <<patterns.mostActiveHour>>])
  \o FactIf(basicStats.daysActive > 300,
            [name |-> "Dedicated Viewer", args |-> <<basicStats.daysActive>>])
  \o FactIf(basicStats.totalTvEpisodes > 500,
            [name |-> "TV Enthusiast", args |-> <<basicStats.totalTvEpisodes>>])
  \o FactIf(~(basicStats.totalTvEpisodes > 500) /\ basicStats.totalMovies > 100,
            [name |-> "Movie Buff", args |-> <<basicStats.totalMovies>>])
  \o FactIf(overseerrStats.defined /\ overseerrStats.totalRequests > 20,
            [name |-> "Content Curator", args |-> <<overseerrStats.totalRequests>>])
  \o FactIf(/\ overseerrStats.defined
            /\ overseerrStats.averageApprovalTimeHours # 0
            /\ overseerrStats.averageApprovalTimeHours < 2,
            [name |-> "VIP Treatment",
             args |-> <<overseerrStats.averageApprovalTimeHours>>])

generateFunFacts(basicStats, patterns, overseerrStats) ==
  FactIf(patterns.longestBingeMinutes > 180,
         [name |-> "Marathon Master",
          args |-> <<patterns.longestBingeShow, RoundHours(patterns.longestBingeMinutes)>>])
  \o FactIf(patterns.mostActiveHour >= 22 \/ patterns.mostActiveHour <= 4,
            [name |-> "Night Owl", args |-> <<patterns.mostActiveHour>>])
  \o FactIf(patterns.mostActiveHour >= 5 /\ patterns.mostActiveHour <= 8,
            [name |-> "Early Bird", args |-> <<patterns.mostActiveHour>>])
  \o FactIf(basicStats.daysActive > 300,
            [name |-> "Dedicated Viewer", args |-> <<basicStats.daysActive>>])
  \o FactIf(basicStats.totalTvEpisodes > 500,
            [name |-> "TV Enthusiast", args |-> <<basicStats.totalTvEpisodes>>])
  \o FactIf(basicStats.totalMovies > 100,
            [name |-> "Movie Buff", args |-> <<basicStats.totalMovies>>])
  \o FactIf(overseerrStats.defined /\ overseerrStats.totalRequests > 20,
            [name |-> "Content Curator", args |-> <<overseerrStats.totalRequests>>])
  \o FactIf(/\ overseerrStats.defined
            /\ overseerrStats.averageApprovalTimeHours # 0
            /\ overseerrStats.averageApprovalTimeHours < 2,
            [name |-> "VIP Treatment",
             args |-> <<overseerrStats.averageApprovalTimeHours>>])

\* the Marathon Master badge given from three hours on (a plausible slip)
generateBadgesFromThreeHours(basicStats, patterns, overseerrStats) ==
  FactIf(patterns.longestBingeMinutes >= 180,
         [name |-> "Marathon Master", description |-> "Binged for over 4 hours straight"])
  \o FactIf(patterns.longestStreakDays > 30,
            [name |-> "Consistent Viewer", description |-> patterns.longestStreakDays])
  \o FactIf(basicStats.totalTvEpisodes > 500,
            [name |-> "TV Fanatic", description |-> "Watched over 500 episodes"])
  \o FactIf(basicStats.totalMovies > 100,
            [name |-> "Cinema Enthusiast", description |-> "Watched over 100 movies"])
  \o FactIf(overseerrStats.defined /\ overseerrStats.totalRequests > 50,
            [name |-> "Content Curator", description |-> "Requested over 50 titles"])

generateBadges(basicStats, patterns, overseerrStats) ==
  FactIf(patterns.longestBingeMinutes > 240,
         [name |-> "Marathon Master", description |-> "Binged for over 4 hours straight"])
  \o FactIf(patterns.longestStreakDays > 30,
            [name |-> "Consistent Viewer", description |-> patterns.longestStreakDays])
  \o FactIf(basicStats.totalTvEpisodes > 500,
            [name |-> "TV Fanatic", description |-> "Watched over 500 episodes"])
  \o FactIf(basicStats.totalMovies > 100,
            [name |-> "Cinema Enthusiast", description |-> "Watched over 100 movies"])
  \o FactIf(overseerrStats.defined /\ overseerrStats.totalRequests > 50,
            [name |-> "Content Curator", description |-> "Requested over 50 titles"])

(***************************************************************************)
(* getEmptyStats                                                           *)
(***************************************************************************)
getEmptyStats ==
  [totalWatchTimeMinutes |-> 0,
   totalPlays |-> 0,
   totalMovies |-> 0,
   totalTvEpisodes |-> 0,
   uniqueMovies |-> 0,
   uniqueShows |-> 0,
   daysActive |-> 0,
   mostActiveMonth |-> "January",
   mostActiveDayOfWeek |-> "Saturday",
   mostActiveHour |-> 20,
   longestStreakDays |-> 0,
   longestBingeMinutes |-> 0,
   longestBingeShow |-> Null,
   topMovies |-> <<>>,
   topShows |-> <<>>,
   topEpisodes |-> <<>>,
   topGenres |-> <<>>,
   topActors |-> <<>>,
   topDirectors |-> <<>>,
   topDevices |-> <<>>,
   topPlatforms |-> <<>>,
   qualityStats |->
     [directPlay |-> 0, transcode |-> 0, directStream |-> 0, resolutions |-> <<>>],
   monthlyStats |-> <<>>,
   contentSharedWith |-> 0,
   percentageOfLibraryWatched |-> 0,
   totalSeasonsCompleted |-> 0,
   rewatches |-> 0,
   firstWatchTitle |-> Null,
   firstWatchDate |-> Null,
   lastWatchTitle |-> Null,
   lastWatchDate |-> Null,
   mostMemorableDayDate |-> Null,
   mostMemorableDayMinutes |-> 0,
   funFacts |-> <<>>,
   badges |-> <<>>]

(***************************************************************************)
(* Inputs: the history records getAllHistoryForYear hands to the engine    *)
(* (TautulliHistoryRecord).  Only the fields the engine reads are kept.    *)
(***************************************************************************)
\* 2024-01-01T00:00:00Z, a Monday
T0 == 19723 * 86400

Event(mt, rk, gk, started, stopped, duration, genres, actors, directors, player, platform, decision, resolution) ==
  [media_type |-> mt, rating_key |-> rk, grandparent_rating_key |-> gk,
   title |-> "title" \o ToString(rk),
   grandparent_title |-> "show" \o ToString(gk),
   started |-> started, stopped |-> stopped, duration |-> duration,
   genres |-> genres, actors |-> actors, directors |-> directors,
   player |-> player, platform |-> platform,
   transcode_decision |-> decision, stream_video_resolution |-> resolution]

\* an episode of show 1 or show 2, at an offset from T0
Episode(gk, rk, from, to, duration) ==
  IF gk = 1
  THEN Event("episode", rk, gk, T0 + from, T0 + to, duration,
             <<"Drama">>, <<"Ann", "Bob">>, <<>>,
             <<"Chrome">>, <<"Web">>, "direct play", "1080")
  ELSE Event("episode", rk, gk, T0 + from, T0 + to, duration,
             <<"Comedy">>, <<"Bob">>, <<"Eve">>,
             <<"Living", "-", "Room">>, <<"Roku">>, "transcode", "")

\* well-formed events: duration >= 0 and started <= stopped.
\*   show 1: 0-1800, then one starting exactly 3600 s after the first stopped
\*   show 2: 0-1800, 1900-3600, 8000-9600, and one starting 3601 s after the
\*           first stopped; one more starting with the first of show 2 but
\*           stopping 2600 s later (3600 s before the episode at 8000)
\*   movies on the second and on the fourth day, the larger key first
\*   a music track on 2024-02-10 at 06:00
WellFormedPool ==
  { Episode(1, 11, 0, 1800, 1800),
    Episode(1, 12, 5400, 6024, 624),
    Episode(2, 21, 0, 1800, 1800),
    Episode(2, 22, 1900, 3600, 1700),
    Episode(2, 23, 8000, 9600, 1600),
    Episode(2, 24, 5401, 6019, 618),
    Episode(2, 25, 0, 4400, 900),
    Event("track", 8, 6, T0 + 40 * 86400 + 21600, T0 + 40 * 86400 + 21840, 240,
          <<>>, <<>>, <<>>, <<"Phone">>, <<"iOS">>, "direct play", ""),
    Event("movie", 5, 0, T0 + 86400 + 72000, T0 + 86400 + 79200, 7200,
          <<"Action", "Drama">>, <<"Cy">>, <<"Dee">>,
          <<"Living">>, <<"Room", "-", "Roku">>, "copy", "4k"),
    Event("movie", 3, 0, T0 + 3 * 86400 + 82800, T0 + 3 * 86400 + 88200, 5400,
          <<"Action">>, <<>>, <<"Dee", "Eve">>,
          <<"Chrome">>, <<"Web">>, "direct play", "1080") }

\* malformed events: a negative duration; started after stopped
MalformedPool ==
  { Event("movie", 7, 0, T0 + 100, T0 + 200, -120,
          <<"Action">>, <<"Cy">>, <<>>, <<"Chrome">>, <<"Web">>, "copy", "1080"),
    Event("track", 9, 8, T0 + 86400 + 500, T0 + 86400 + 100, 60,
          <<>>, <<>>, <<>>, <<"Phone">>, <<"iOS">>, "direct play", "") }

EventPool == WellFormedPool \cup MalformedPool

\* the i-th title of a catalogue: its own keys, people, genre, device and day
CatalogueEvent(mt, i) ==
  Event(mt, 100 + i, 200 + i,
        T0 + (i - 1) * 86400 + 3600 * i, T0 + (i - 1) * 86400 + 3600 * i + 600 + i,
        600 + i,
        <<"genre" \o ToString(i)>>, <<"actor" \o ToString(i)>>,
        <<"director" \o ToString(i)>>,
        <<"player" \o ToString(i)>>, <<"os" \o ToString(i)>>, "direct play", "720")

\* n distinct titles, the largest key first; with again, the first event
\* of the history is played once more at the end
Catalogue(mt, n, again) ==
  LET once == [i \in 1..n |-> CatalogueEvent(mt, n + 1 - i)]
  IN IF again THEN Append(once, CatalogueEvent(mt, 1)) ELSE once

SeqsUpTo(S, n) == UNION {[1..k -> S] : k \in 0..n}

Inputs ==
  SeqsUpTo(EventPool, MaxLen)
  \cup {Catalogue(mt, n, again) :
          mt \in {"movie", "episode"}, n \in 1..MaxCatalogue, again \in BOOLEAN}

\* what getUserRequestStats can return
OverseerrValues ==
  {OverseerrStats(0, 0), OverseerrStats(25, 1), OverseerrStats(60, 3)}

(***************************************************************************)
(* calculateUserStats as a state machine: one step per await.              *)
(***************************************************************************)
VARIABLES
  pc,             \* where the invocation stands
  input,          \* what getAllHistoryForYear is going to return
  history,        \* the local history
  computed,       \* the results of the aggregators (lines 226-233)
  overseerr,      \* how the Overseerr lookup went
  overseerrStats, \* the local overseerrStats
  report,         \* the returned ProcessedStats
  calls,          \* the methods this invocation has called, in call order
  invocation,     \* 1 for the first call of calculateUserStats, 2 for the next
  previous,       \* what the invocation before this one returned
  upstream,       \* Tautulli: the user's whole history, newest first
  year,           \* getAllHistoryForYear: the year asked for
  start,          \* getAllHistoryForYear: the local start
  allData,        \* getAllHistoryForYear: the local allData
  hasMore,        \* getAllHistoryForYear: the local hasMore
  fetchPc,        \* getAllHistoryForYear: in the loop or returned
  pages,          \* getAllHistoryForYear: the get_history calls made so far
  access_tokens,  \* the access_tokens table: its rows
  access_tokens_id_seq, \* the access_tokens table: the last id handed out
  now,            \* the clock new Date() reads
  requests,       \* GET /api/wrapped/:token: the requests in flight
  redis,          \* the Redis keys of the rate limiter
  handlers        \* createRedisRateLimiter: the middleware calls in flight

statsVars ==
  <<pc, input, history, computed, overseerr, overseerrStats, report,
    calls, invocation, previous>>

fetchVars == <<upstream, year, start, allData, hasMore, fetchPc, pages>>

tokenVars == <<access_tokens, access_tokens_id_seq, now, requests>>

limiterVars == <<redis, handlers>>

serviceVars == <<fetchVars, tokenVars, limiterVars>>

vars == <<statsVars, serviceVars>>

\* getAllHistoryForYear has not been called
FetchIdle ==
  /\ upstream = <<>>
  /\ year = 0
  /\ start = 0
  /\ allData = <<>>
  /\ hasMore = FALSE
  /\ fetchPc = "idle"
  /\ pages = 0

\* no access token has been issued and no wrapped page is being requested
TokensIdle ==
  /\ access_tokens = {}
  /\ access_tokens_id_seq = 0
  /\ now = 0
  /\ requests = <<>>

\* the rate limiter has seen no request
LimiterIdle ==
  /\ redis = <<>>
  /\ handlers = <<>>

ServicesIdle == FetchIdle /\ TokensIdle /\ LimiterIdle

None == [none |-> TRUE]

\* the locals of an invocation that has not run yet
Entry ==
  /\ pc = "start"
  /\ history = <<>>
  /\ computed = None
  /\ overseerr = "not called"
  /\ overseerrStats = Undefined
  /\ report = None
  /\ calls = <<>>

Init ==
  /\ Entry
  /\ input \in Inputs
  /\ invocation = 1
  /\ previous = None
  /\ ServicesIdle

\* const history = await this.tautulli.getAllHistoryForYear(userId, year)
FetchHistory ==
  /\ pc = "start"
  /\ history' = input
  /\ calls' = Append(calls, "getAllHistoryForYear")
  /\ pc' = "fetched"
  /\ UNCHANGED <<input, computed, overseerr, overseerrStats, report, invocation, previous, serviceVars>>

\* the empty report carrying a placeholder fun fact (a plausible slip)
ReturnEmptyWithFact ==
  /\ pc = "fetched"
  /\ Len(history) = 0
  /\ report' = [getEmptyStats EXCEPT
                  !.funFacts = <<[name |-> "No Activity", args |-> <<>>]>>]
  /\ calls' = Append(calls, "getEmptyStats")
  /\ pc' = "done"
  /\ UNCHANGED <<input, history, computed, overseerr, overseerrStats, invocation, previous, serviceVars>>

\* if (history.length === 0) return this.getEmptyStats()
ReturnEmpty ==
  /\ pc = "fetched"
  /\ Len(history) = 0
  /\ report' = getEmptyStats
  /\ calls' = Append(calls, "getEmptyStats")
  /\ pc' = "done"
  /\ UNCHANGED <<input, history, computed, overseerr, overseerrStats, invocation, previous, serviceVars>>

\* the eight aggregators in call order
Aggregators ==
  <<"calculateBasicStats", "calculateViewingPatterns", "calculateTopContent",
    "calculateTopGenres", "calculateTopPeople", "calculateDeviceStats",
    "calculateMonthlyStats", "calculateFunStats">>

\* the aggregators run whatever the length of the history (the early return
\* left out)
CalculateStatsAlways ==
  /\ pc = "fetched"
  /\ computed' =
       [basicStats |-> calculateBasicStats(history),
        viewingPatterns |-> calculateViewingPatterns(history),
        topContent |-> calculateTopContent(history),
        topGenres |-> calculateTopGenres(history),
        topPeople |-> calculateTopPeople(history),
        deviceStats |-> calculateDeviceStats(history),
        monthlyStats |-> calculateMonthlyStats(history),
        funStats |-> calculateFunStats(history)]
  /\ calls' = calls \o Aggregators
  /\ pc' = "overseerr"
  /\ UNCHANGED <<input, history, overseerr, overseerrStats, report, invocation, previous, serviceVars>>

\* the aggregators, lines 226-233
CalculateStats ==
  /\ pc = "fetched"
  /\ Len(history) # 0
  /\ computed' =
       [basicStats |-> calculateBasicStats(history),
        viewingPatterns |-> calculateViewingPatterns(history),
        topContent |-> calculateTopContent(history),
        topGenres |-> calculateTopGenres(history),
        topPeople |-> calculateTopPeople(history),
        deviceStats |-> calculateDeviceStats(history),
        monthlyStats |-> calculateMonthlyStats(history),
        funStats |-> calculateFunStats(history)]
  /\ calls' = calls \o Aggregators
  /\ pc' = "overseerr"
  /\ UNCHANGED <<input, history, overseerr, overseerrStats, report, invocation, previous, serviceVars>>

\* this.overseerr.isEnabled() is false
OverseerrDisabled ==
  /\ pc = "overseerr"
  /\ overseerr' = "disabled"
  /\ calls' = Append(calls, "isEnabled")
  /\ pc' = "assemble"
  /\ UNCHANGED <<input, history, computed, overseerrStats, report, invocation, previous, serviceVars>>

\* overseerrStats = await this.overseerr.getUserRequestStats(userId, year)
OverseerrReturns ==
  /\ pc = "overseerr"
  /\ \E s \in OverseerrValues : overseerrStats' = s
  /\ overseerr' = "returned"
  /\ calls' = calls \o <<"isEnabled", "getUserRequestStats">>
  /\ pc' = "assemble"
  /\ UNCHANGED <<input, history, computed, report, invocation, previous, serviceVars>>

\* the catch block filling in a zeroed block instead of leaving the local
\* undefined
OverseerrThrowsZeroed ==
  /\ pc = "overseerr"
  /\ overseerr' = "threw"
  /\ overseerrStats' = OverseerrStats(0, 0)
  /\ calls' = calls \o <<"isEnabled", "getUserRequestStats">>
  /\ pc' = "assemble"
  /\ UNCHANGED <<input, history, computed, report, invocation, previous, serviceVars>>

\* getUserRequestStats throws: caught and logged
OverseerrThrows ==
  /\ pc = "overseerr"
  /\ overseerr' = "threw"
  /\ calls' = calls \o <<"isEnabled", "getUserRequestStats">>
  /\ pc' = "assemble"
  /\ UNCHANGED <<input, history, computed, overseerrStats, report, invocation, previous, serviceVars>>

\* the returned object, lines 252-265
ProcessedStats(c, funFacts, badges, stats) ==
  [totalWatchTimeMinutes |-> c.basicStats.totalWatchTimeMinutes,
   totalPlays |-> c.basicStats.totalPlays,
   totalMovies |-> c.basicStats.totalMovies,
   totalTvEpisodes |-> c.basicStats.totalTvEpisodes,
   uniqueMovies |-> c.basicStats.uniqueMovies,
   uniqueShows |-> c.basicStats.uniqueShows,
   daysActive |-> c.basicStats.daysActive,
   mostActiveMonth |-> c.viewingPatterns.mostActiveMonth,
   mostActiveDayOfWeek |-> c.viewingPatterns.mostActiveDayOfWeek,
   mostActiveHour |-> c.viewingPatterns.mostActiveHour,
   longestStreakDays |-> c.viewingPatterns.longestStreakDays,
   longestBingeMinutes |-> c.viewingPatterns.longestBingeMinutes,
   longestBingeShow |-> c.viewingPatterns.longestBingeShow,
   topMovies |-> c.topContent.topMovies,
   topShows |-> c.topContent.topShows,
   topEpisodes |-> c.topContent.topEpisodes,
   topGenres |-> c.topGenres,
   topActors |-> c.topPeople.topActors,
   topDirectors |-> c.topPeople.topDirectors,
   topDevices |-> c.deviceStats.topDevices,
   topPlatforms |-> c.deviceStats.topPlatforms,
   qualityStats |-> c.deviceStats.qualityStats,
   monthlyStats |-> c.monthlyStats,
   contentSharedWith |-> 0,
   percentageOfLibraryWatched |-> c.funStats.percentageOfLibraryWatched,
   totalSeasonsCompleted |-> c.funStats.totalSeasonsCompleted,
   rewatches |-> c.funStats.rewatches,
   firstWatchTitle |-> c.funStats.firstWatchTitle,
   firstWatchDate |-> c.funStats.firstWatchDate,
   lastWatchTitle |-> c.funStats.lastWatchTitle,
   lastWatchDate |-> c.funStats.lastWatchDate,
   mostMemorableDayDate |-> c.funStats.mostMemorableDayDate,
   mostMemorableDayMinutes |-> c.funStats.mostMemorableDayMinutes,
   funFacts |-> funFacts,
   badges |-> badges,
   overseerrStats |-> stats]

\* the facts array kept in a field of the calculator and never cleared: the
\* facts of the invocation before are still in it
AssembleKeepingFacts ==
  /\ pc = "assemble"
  /\ report' =
       ProcessedStats(
         computed,
         (IF previous = None THEN <<>> ELSE previous.report.funFacts)
           \o generateFunFacts(computed.basicStats, computed.viewingPatterns, overseerrStats),
         generateBadges(computed.basicStats, computed.viewingPatterns, overseerrStats),
         overseerrStats)
  /\ calls' = calls \o <<"generateFunFacts", "generateBadges">>
  /\ pc' = "done"
  /\ UNCHANGED <<input, history, computed, overseerr, overseerrStats, invocation, previous, serviceVars>>

\* generateFunFacts, generateBadges and the returned object, lines 246-265
Assemble ==
  /\ pc = "assemble"
  /\ report' =
       ProcessedStats(
         computed,
         generateFunFacts(computed.basicStats, computed.viewingPatterns, overseerrStats),
         generateBadges(computed.basicStats, computed.viewingPatterns, overseerrStats),
         overseerrStats)
  /\ calls' = calls \o <<"generateFunFacts", "generateBadges">>
  /\ pc' = "done"
  /\ UNCHANGED <<input, history, computed, overseerr, overseerrStats, invocation, previous, serviceVars>>

Next ==
  \/ FetchHistory
  \/ ReturnEmpty
  \/ CalculateStats
  \/ OverseerrDisabled
  \/ OverseerrReturns
  \/ OverseerrThrows
  \/ Assemble

Spec == Init /\ [][Next]_vars

(***************************************************************************)
(* Two invocations of calculateUserStats on one calculator, for the same   *)
(* user and year: the second starts when the first has returned and        *)
(* fetches the same history.                                               *)
(***************************************************************************)
InputsTwice ==
  SeqsUpTo(EventPool, MaxLenTwice)
  \cup {Catalogue(mt, n, again) :
          mt \in {"movie", "episode"}, n \in 1..MaxCatalogue, again \in BOOLEAN}

InitTwice ==
  /\ Entry
  /\ input \in InputsTwice
  /\ invocation = 1
  /\ previous = None
  /\ ServicesIdle

\* the caller keeps the returned report and calls calculateUserStats again
Reinvoke ==
  /\ pc = "done"
  /\ invocation = 1
  /\ previous' =
       [report |-> report, overseerr |-> overseerr, overseerrStats |-> overseerrStats]
  /\ invocation' = 2
  /\ pc' = "start"
  /\ history' = <<>>
  /\ computed' = None
  /\ overseerr' = "not called"
  /\ overseerrStats' = Undefined
  /\ report' = None
  /\ calls' = <<>>
  /\ UNCHANGED <<input, serviceVars>>

NextTwice ==
  \/ FetchHistory
  \/ ReturnEmpty
  \/ CalculateStats
  \/ OverseerrDisabled
  \/ OverseerrReturns
  \/ OverseerrThrows
  \/ Assemble
  \/ Reinvoke

SpecTwice == InitTwice /\ [][NextTwice]_vars

(***************************************************************************)
(* The rule engine alone: generateFunFacts and generateBadges applied to   *)
(* statistics on both sides of every threshold, which histories of a few   *)
(* events do not reach.                                                    *)
(***************************************************************************)
\* basicStats as the rules read it
RuleBasicStats ==
  [daysActive : {300, 301}, totalTvEpisodes : {500, 501}, totalMovies : {100, 101}]

\* viewingPatterns as the rules read it
RulePatterns ==
  {[longestBingeMinutes |-> b,
    longestBingeShow |-> IF b = 0 THEN Null ELSE "show1",
    mostActiveHour |-> h,
    longestStreakDays |-> d] :
     b \in {0, 180, 181, 240, 241}, h \in {0, 4, 5, 8, 9, 21, 22, 23}, d \in {30, 31}}

\* overseerrStats as the rules get it: undefined or a returned block
RuleOverseerrStats ==
  {Undefined, OverseerrStats(20, 2), OverseerrStats(21, 0)} \cup OverseerrValues

RulesInit ==
  /\ pc = "rules"
  /\ input = <<>>
  /\ history = <<>>
  /\ \E b \in RuleBasicStats, p \in RulePatterns :
       computed = [basicStats |-> b, viewingPatterns |-> p]
  /\ overseerr = "not called"
  /\ overseerrStats \in RuleOverseerrStats
  /\ report = None
  /\ calls = <<>>
  /\ invocation = 1
  /\ previous = None
  /\ ServicesIdle

\* lines 246-247: the two rule lists
GenerateFactsAndBadges ==
  /\ pc = "rules"
  /\ report' =
       [funFacts |->
          generateFunFacts(computed.basicStats, computed.viewingPatterns, overseerrStats),
        badges |->
          generateBadges(computed.basicStats, computed.viewingPatterns, overseerrStats)]
  /\ calls' = calls \o <<"generateFunFacts", "generateBadges">>
  /\ pc' = "rules done"
  /\ UNCHANGED <<input, history, computed, overseerr, overseerrStats, invocation, previous, serviceVars>>

SpecRules == RulesInit /\ [][GenerateFactsAndBadges]_vars

(***************************************************************************)
(* Properties.                                                             *)
(***************************************************************************)
Done == pc = "done"

\* an event that satisfies the PlayEvent data model: duration >= 0 and
\* started <= stopped
Survives(r) == r.duration >= 0 /\ r.started <= r.stopped

WellFormed(h) == \A i \in 1..Len(h) : Survives(h[i])

TopLists(r) ==
  <<r.topMovies, r.topShows, r.topEpisodes, r.topGenres,
    r.topActors, r.topDirectors, r.topDevices, r.topPlatforms>>

\* C1: on an empty event list the invocation returns a report with
\* totalPlays = 0, the eight top-N lists empty, funFacts = [] and badges = []
C1_EmptyInputEmptyReport ==
  (Done /\ input = <<>>) =>
    /\ report.totalPlays = 0
    /\ \A i \in 1..8 : TopLists(report)[i] = <<>>
    /\ report.funFacts = <<>>
    /\ report.badges = <<>>

\* C1 witness: the invocation on the empty list has returned, by the
\* empty-report path (no aggregator ran, nothing was thrown)
C1_Witness ==
  Done /\ input = <<>> /\ history = <<>> /\ computed = None /\ report.totalPlays = 0

\* C2 as claimed: for a non-empty input, totalPlays is the number of events
\* with non-negative duration and started <= stopped
C2_TotalPlaysCountsSurvivors ==
  (Done /\ input # <<>>) =>
    report.totalPlays = Len(SelectSeq(input, Survives))

\* C3 as claimed: a non-empty input of malformed events only ends in the
\* report of the empty input
C3_AllMalformedIsEmpty ==
  (Done /\ input # <<>> /\ \A i \in 1..Len(input) : ~Survives(input[i])) =>
    report = getEmptyStats

(***************************************************************************)
(* Binge sessions, stated apart from the loop: within the episodes of one  *)
(* show in started order, a session is a maximal run of episodes in which  *)
(* every episode starts at most 3600 s after the one before it stopped.    *)
(***************************************************************************)
Episodes(h) == OfMediaType(h, "episode")

\* the episodes of show g, in started order (ties in input order)
ShowEpisodes(h, g) ==
  LET OfShow(r) == r.grandparent_rating_key = g
  IN SortBy(SelectSeq(Episodes(h), OfShow), "started")

GapAfter(S, k) == S[k + 1].started - S[k].stopped

IsSession(S, i, j) ==
  /\ i <= j
  /\ \A k \in i..(j - 1) : GapAfter(S, k) <= 3600
  /\ i = 1 \/ GapAfter(S, i - 1) > 3600
  /\ j = Len(S) \/ GapAfter(S, j) > 3600

\* every session of every show, with its show title and total seconds
AllSessions(h) ==
  LET eps == Episodes(h)
      shows == {eps[i].grandparent_rating_key : i \in 1..Len(eps)}
  IN UNION {
       LET S == ShowEpisodes(h, g)
       IN {[show |-> S[ij[1]].grandparent_title,
            from |-> ij[1], to |-> ij[2],
            seconds |-> SumDuration(SubSeq(S, ij[1], ij[2]))] :
             ij \in {x \in (1..Len(S)) \X (1..Len(S)) : IsSession(S, x[1], x[2])}}
       : g \in shows}

\* the total of the largest session, 0 when there is none
BestSessionSeconds(h) ==
  LET all == AllSessions(h)
  IN IF all = {} THEN 0
     ELSE (CHOOSE b \in all : \A o \in all : o.seconds <= b.seconds).seconds

NonNegativeDurations(h) == \A i \in 1..Len(h) : h[i].duration >= 0

\* the two episodes of a history that has exactly two, in started order
TwoEpisodes(h) ==
  /\ Len(Episodes(h)) = 2
  /\ Episodes(h)[1].grandparent_rating_key = Episodes(h)[2].grandparent_rating_key
  /\ Episodes(h)[1].started # Episodes(h)[2].started

FirstEpisode(h) ==
  IF Episodes(h)[1].started < Episodes(h)[2].started
  THEN Episodes(h)[1] ELSE Episodes(h)[2]

SecondEpisode(h) ==
  IF Episodes(h)[1].started < Episodes(h)[2].started
  THEN Episodes(h)[2] ELSE Episodes(h)[1]

\* C4: when the only two episodes of a history are of the same show, a gap
\* next.started - prev.stopped of exactly 3600 s makes one session of them
\* (longestBingeMinutes is the rounded sum of both), and a gap of exactly
\* 3601 s makes two sessions (longestBingeMinutes is the larger one alone)
C4_BingeGapBoundary ==
  (Done /\ input # <<>> /\ WellFormed(input) /\ TwoEpisodes(input)) =>
    LET a == FirstEpisode(input)
        b == SecondEpisode(input)
        gap == b.started - a.stopped
    IN /\ gap = 3600 =>
            report.longestBingeMinutes = RoundMinutes(a.duration + b.duration)
       /\ gap = 3601 =>
            report.longestBingeMinutes =
              Max(RoundMinutes(a.duration), RoundMinutes(b.duration))

\* C4 witness: two episodes of one show 3601 s apart were reported as two
\* sessions, the longer one (1800 s) being the longest binge
C4_Witness ==
  /\ Done /\ input # <<>> /\ WellFormed(input) /\ TwoEpisodes(input)
  /\ SecondEpisode(input).started - FirstEpisode(input).stopped = 3601
  /\ report.longestBingeMinutes = 30
  /\ RoundMinutes(FirstEpisode(input).duration + SecondEpisode(input).duration) = 40

\* C5: longestBingeMinutes is the rounded total of the largest session over
\* all sessions of all shows, the last (still open) session of each show
\* included
C5_LongestBingeIsBestSession ==
  (Done /\ input # <<>> /\ NonNegativeDurations(input)) =>
    report.longestBingeMinutes = RoundMinutes(BestSessionSeconds(input))

\* C5 witness: the three episodes 0-1800, 1900-3600, 8000-9600 of one show
\* make two sessions (3500 s and 1600 s) and the larger one, 58 minutes, is
\* reported
C5_Witness ==
  /\ Done
  /\ Len(input) = 3
  /\ {[from |-> x.from, to |-> x.to, seconds |-> x.seconds] : x \in AllSessions(input)}
       = {[from |-> 1, to |-> 2, seconds |-> 3500], [from |-> 3, to |-> 3, seconds |-> 1600]}
  /\ report.longestBingeMinutes = 58

\* C6 as claimed: with at least one episode, longestBingeShow is the title of
\* a show that owns a session of maximal total duration; without episodes it
\* is null
C6_LongestBingeShowOwnsBest ==
  (Done /\ input # <<>> /\ WellFormed(input)) =>
    IF Episodes(input) = <<>>
    THEN report.longestBingeShow = Null
    ELSE \E x \in AllSessions(input) :
           /\ x.seconds = BestSessionSeconds(input)
           /\ x.show = report.longestBingeShow

(***************************************************************************)
(* Streaks, stated on day numbers.                                         *)
(***************************************************************************)
ActiveDays(h) == {EpochDay(h[i].started) : i \in 1..Len(h)}

\* the length of the longest run d, d+1, ..., d+k-1 of active days
LongestRun(D) ==
  LET Run(d, k) == \A x \in d..(d + k - 1) : x \in D
      lens == {k \in 1..Cardinality(D) : \E d \in D : Run(d, k)}
  IN IF D = {} THEN 0 ELSE CHOOSE k \in lens : \A o \in lens : o <= k

\* C7: longestStreakDays is the length of the longest run of consecutive
\* calendar dates among the distinct active dates; a single active day
\* gives 1
C7_LongestStreak ==
  (Done /\ input # <<>>) =>
    /\ report.longestStreakDays = LongestRun(ActiveDays(input))
    /\ Cardinality(ActiveDays(input)) = 1 => report.longestStreakDays = 1

\* C7 witness: the active dates are 2024-01-01, 2024-01-02 and 2024-01-04
\* and the reported streak is 2
C7_Witness ==
  /\ Done /\ input # <<>> /\ WellFormed(input)
  /\ {FormatDay(input[i].started) : i \in 1..Len(input)} = {20240101, 20240102, 20240104}
  /\ report.longestStreakDays = 2

(***************************************************************************)
(* Rankings.                                                               *)
(***************************************************************************)
NonIncreasing(list, metric) ==
  \A i, j \in 1..Len(list) : i < j => list[i][metric] >= list[j][metric]

\* C8: every top-N list is in non-increasing order of its metric: play count
\* for movies, shows, episodes, actors, directors, devices and platforms,
\* summed minutes for genres
C8_TopListsSorted ==
  Done =>
    /\ NonIncreasing(report.topMovies, "plays")
    /\ NonIncreasing(report.topShows, "plays")
    /\ NonIncreasing(report.topEpisodes, "plays")
    /\ NonIncreasing(report.topActors, "count")
    /\ NonIncreasing(report.topDirectors, "count")
    /\ NonIncreasing(report.topDevices, "plays")
    /\ NonIncreasing(report.topPlatforms, "plays")
    /\ NonIncreasing(report.topGenres, "minutes")

\* C8 witness: a report whose genre list puts the genre with more minutes
\* before a genre with more plays, and whose show list has two different
\* play counts
C8_Witness ==
  /\ Done /\ input # <<>> /\ WellFormed(input)
  /\ Len(report.topGenres) = 2
  /\ report.topGenres[1].minutes > report.topGenres[2].minutes
  /\ report.topGenres[1].count < report.topGenres[2].count
  /\ Len(report.topShows) = 2
  /\ report.topShows[1].plays > report.topShows[2].plays

\* the position of the first event of h whose key (by Key) is k
FirstSeen(keys, k) ==
  CHOOSE i \in 1..Len(keys) : keys[i] = k /\ \A j \in 1..(i - 1) : keys[j] # k

\* entries of equal metric stand in the order in which their keys first
\* occur in keys
TiesInFirstSeenOrder(list, metric, id, keys) ==
  \A i, j \in 1..Len(list) :
    (i < j /\ list[i][metric] = list[j][metric]) =>
      FirstSeen(keys, list[i][id]) < FirstSeen(keys, list[j][id])

KeysOf(h, field) == [i \in 1..Len(h) |-> h[i][field]]

NamesOf(h, field) ==
  LET m == Mentions(h, field) IN [i \in 1..Len(m) |-> m[i].name]

\* C9 as claimed: entries with equal play count stand in the order in which
\* their key was first met in the input sequence (stated for the lists whose
\* entries carry their key: movies, shows, episodes, actors, directors,
\* platforms)
C9_TiesKeepFirstEncounterOrder ==
  (Done /\ input # <<>> /\ WellFormed(input)) =>
    /\ TiesInFirstSeenOrder(report.topMovies, "plays", "ratingKey",
                            KeysOf(OfMediaType(input, "movie"), "rating_key"))
    /\ TiesInFirstSeenOrder(report.topShows, "plays", "ratingKey",
                            KeysOf(Episodes(input), "grandparent_rating_key"))
    /\ TiesInFirstSeenOrder(report.topEpisodes, "plays", "title",
                            KeysOf(Episodes(input), "title"))
    /\ TiesInFirstSeenOrder(report.topActors, "count", "name", NamesOf(input, "actors"))
    /\ TiesInFirstSeenOrder(report.topDirectors, "count", "name",
                            NamesOf(input, "directors"))
    /\ TiesInFirstSeenOrder(report.topPlatforms, "plays", "platform",
                            KeysOf(input, "platform"))

\* C10: no top-N list is longer than its N
C10_TopListsBounded ==
  Done =>
    /\ Len(report.topMovies) <= 10
    /\ Len(report.topShows) <= 10
    /\ Len(report.topEpisodes) <= 5
    /\ Len(report.topGenres) <= 10
    /\ Len(report.topActors) <= 5
    /\ Len(report.topDirectors) <= 5
    /\ Len(report.topDevices) <= 5
    /\ Len(report.topPlatforms) <= 5

\* C10 witness: a history of more than ten distinct movies, genres, actors,
\* directors, devices and platforms, reported with full lists
C10_Witness ==
  /\ Done
  /\ Cardinality({input[i].rating_key : i \in 1..Len(input)}) > 10
  /\ Cardinality({input[i].platform : i \in 1..Len(input)}) > 10
  /\ Len(report.topMovies) = 10
  /\ Len(report.topGenres) = 10
  /\ Len(report.topActors) = 5
  /\ Len(report.topDirectors) = 5
  /\ Len(report.topDevices) = 5
  /\ Len(report.topPlatforms) = 5

(***************************************************************************)
(* Genre shares.  Percentages are in tenths of a percent: 1000 is 100%.    *)
(***************************************************************************)
RECURSIVE SumPercentages(_)
SumPercentages(genres) ==
  IF genres = <<>> THEN 0
  ELSE SumPercentages(Front(genres)) + Last(genres).percentage

\* the largest number of genres a single event of h lists
MostGenresOnOneEvent(h) ==
  LET lens == {Len(h[i].genres) : i \in 1..Len(h)}
  IN CHOOSE m \in lens : \A o \in lens : o <= m

PositiveTotal(h) == NonNegativeDurations(h) /\ SumDuration(h) > 0

C12_MoviesAndEpisodesWithinPlays ==
  Done => report.totalMovies + report.totalTvEpisodes <= report.totalPlays

\* C12 witness: a history with a movie played twice, an episode and a music
\* track: two movies and one episode among four plays
C12_Witness ==
  /\ Done /\ WellFormed(input)
  /\ \E i \in 1..Len(input) : input[i].media_type = "track"
  /\ report.totalMovies = 2 /\ report.uniqueMovies = 1
  /\ report.totalTvEpisodes = 0
  /\ report.totalPlays = 3

(***************************************************************************)
(* Peaks of the month, weekday and hour axes, counted from the events.     *)
(***************************************************************************)
Min(S) == CHOOSE x \in S : \A y \in S : x <= y

MonthIndex(r) == CivilFromDays(EpochDay(r.started)).m

\* the values of an axis (given as the value of each event) that the most
\* events have
Peaks(axis) ==
  LET Count(v) == Cardinality({i \in 1..Len(axis) : axis[i] = v})
      values == {axis[i] : i \in 1..Len(axis)}
  IN {v \in values : \A o \in values : Count(o) <= Count(v)}

PeakMonths(h) == Peaks([i \in 1..Len(h) |-> MonthIndex(h[i])])

PeakDays(h) == Peaks([i \in 1..Len(h) |-> GetDay(h[i].started)])

PeakHours(h) == Peaks([i \in 1..Len(h) |-> GetHours(h[i].started)])

\* C13 as claimed: among the months, or the weekdays, that tie for the
\* highest event count, mostActiveMonth is the earliest calendar month and
\* mostActiveDayOfWeek the earliest weekday counting from Sunday
C13_MonthAndWeekdayTiesGoToEarliest ==
  (Done /\ input # <<>> /\ WellFormed(input)) =>
    /\ report.mostActiveMonth = MonthNames[Min(PeakMonths(input))]
    /\ report.mostActiveDayOfWeek = dayNames[Min(PeakDays(input)) + 1]

\* C14: among the hours that tie for the highest event count,
\* mostActiveHour is the numerically lowest
C14_HourTiesGoToLowest ==
  (Done /\ input # <<>>) => report.mostActiveHour = Min(PeakHours(input))

\* C14 witness: two hours tie, the history starts with an event of the later
\* one (23) and hour 0 is reported
C14_Witness ==
  /\ Done /\ input # <<>> /\ WellFormed(input)
  /\ PeakHours(input) = {0, 23}
  /\ GetHours(input[1].started) = 23
  /\ report.mostActiveHour = 0

\* C15: mostActiveMonth, mostActiveDayOfWeek and mostActiveHour are each a
\* value that the most events have on its axis
C15_PeaksHaveMaximalCount ==
  (Done /\ input # <<>>) =>
    /\ report.mostActiveMonth \in {MonthNames[m] : m \in PeakMonths(input)}
    /\ report.mostActiveDayOfWeek \in {dayNames[d + 1] : d \in PeakDays(input)}
    /\ report.mostActiveHour \in PeakHours(input)

\* C15 witness: a history that starts with an event of February, on a
\* Saturday at 6, followed by two events of January, on a Monday at 0
C15_Witness ==
  /\ Done /\ WellFormed(input) /\ Len(input) = 3
  /\ MonthIndex(input[1]) = 2 /\ GetDay(input[1].started) = 6
  /\ GetHours(input[1].started) = 6
  /\ PeakMonths(input) = {1} /\ PeakDays(input) = {1} /\ PeakHours(input) = {0}
  /\ report.mostActiveMonth = "January"
  /\ report.mostActiveDayOfWeek = "Monday"
  /\ report.mostActiveHour = 0

(***************************************************************************)
(* The orchestrator.                                                       *)
(***************************************************************************)
\* C16: when getUserRequestStats throws, the invocation goes on to return a
\* report without the enrichment block, equal in every field to the report
\* of an invocation on the same history with the integration disabled
C16_EnrichmentFailureIsContained ==
  /\ overseerr = "threw" =>
       /\ pc \in {"assemble", "done"}
       /\ overseerrStats = Undefined
       /\ pc = "assemble" => ENABLED Assemble
       /\ Done => report # None /\ report.overseerrStats = Undefined
  /\ (Done /\ invocation = 2 /\ {previous.overseerr, overseerr} = {"disabled", "threw"}) =>
       report = previous.report

\* C16 witness: the first invocation ran with the integration disabled, the
\* second had getUserRequestStats throw, and both returned the same report
\* of a non-empty history
C16_Witness ==
  /\ Done /\ invocation = 2 /\ input # <<>>
  /\ previous.overseerr = "disabled" /\ overseerr = "threw"
  /\ report.totalPlays = Len(input)
  /\ report = previous.report

\* C17: on an empty input nothing but the history fetch and getEmptyStats is
\* called, and the invocation ends with exactly these two calls and the
\* empty report
C17_EmptyInputCallsNothingDownstream ==
  input = <<>> =>
    /\ \A i \in 1..Len(calls) : calls[i] \in {"getAllHistoryForYear", "getEmptyStats"}
    /\ computed = None /\ overseerr = "not called"
    /\ Done => /\ calls = <<"getAllHistoryForYear", "getEmptyStats">>
               /\ report = getEmptyStats

\* C17 witness: the invocation on the empty input has returned after the
\* fetch and getEmptyStats
C17_Witness ==
  /\ Done /\ input = <<>>
  /\ calls = <<"getAllHistoryForYear", "getEmptyStats">>

Reorderings(h) ==
  {[i \in 1..Len(h) |-> h[p[i]]] : p \in Permutations(1..Len(h))}

\* C19 as claimed: every reordering of the input gives the same
\* longestStreakDays and the same longestBingeMinutes, two episodes of one
\* show with the same started and different stopped included (checked on
\* the histories of up to MaxLen events)
C19_TemporalPatternsIgnoreInputOrder ==
  (Done /\ input # <<>> /\ WellFormed(input) /\ Len(input) <= MaxLen) =>
    \A h \in Reorderings(input) :
      /\ calculateViewingPatterns(h).longestStreakDays = report.longestStreakDays
      /\ calculateViewingPatterns(h).longestBingeMinutes = report.longestBingeMinutes

\* the streak half of C19 alone
StreakIgnoresInputOrder ==
  (Done /\ input # <<>> /\ WellFormed(input) /\ Len(input) <= MaxLen) =>
    \A h \in Reorderings(input) :
      calculateViewingPatterns(h).longestStreakDays = report.longestStreakDays

(***************************************************************************)
(* Fun facts.                                                              *)
(***************************************************************************)
RuleOrder ==
  <<"Marathon Master", "Night Owl", "Early Bird", "Dedicated Viewer",
    "TV Enthusiast", "Movie Buff", "Content Curator", "VIP Treatment">>

\* the threshold condition of each fun-fact rule, on the statistics alone
Fires(rule) ==
  LET b == computed.basicStats
      p == computed.viewingPatterns
      o == overseerrStats
  IN CASE rule = "Marathon Master" -> p.longestBingeMinutes > 180
       [] rule = "Night Owl" -> p.mostActiveHour \in (22..23) \cup (0..4)
       [] rule = "Early Bird" -> p.mostActiveHour \in 5..8
       [] rule = "Dedicated Viewer" -> b.daysActive > 300
       [] rule = "TV Enthusiast" -> b.totalTvEpisodes > 500
       [] rule = "Movie Buff" -> b.totalMovies > 100
       [] rule = "Content Curator" -> o # Undefined /\ o.totalRequests > 20
       [] rule = "VIP Treatment" ->
            /\ o # Undefined
            /\ o.averageApprovalTimeHours # 0
            /\ o.averageApprovalTimeHours < 2

FactNames(facts) == [i \in 1..Len(facts) |-> facts[i].name]

\* C20: funFacts holds, in the fixed rule order and once each, exactly the
\* facts of the rules whose own threshold condition holds
C20_FunFactsInRuleOrder ==
  pc = "rules done" => FactNames(report.funFacts) = SelectSeq(RuleOrder, Fires)

\* C20 witness: every rule but Early Bird fired, in rule order
C20_Witness ==
  /\ pc = "rules done"
  /\ FactNames(report.funFacts) =
       <<"Marathon Master", "Night Owl", "Dedicated Viewer", "TV Enthusiast",
         "Movie Buff", "Content Curator", "VIP Treatment">>

(***************************************************************************)
(* Monthly breakdown, quality breakdown, devices.                          *)
(***************************************************************************)
MonthsOf(h) == {FormatMonth(h[i].started) : i \in 1..Len(h)}

\* the events of h that started in month m (a yyyymm number)
InMonth(h, m) ==
  LET Is(r) == FormatMonth(r.started) = m IN SelectSeq(h, Is)

\* C21: monthlyStats has exactly one entry per calendar month with an
\* event, carrying that month's play count and rounded summed minutes, in
\* ascending month order
C21_MonthlyStatsPerMonthAscending ==
  Done =>
    LET ms == report.monthlyStats
    IN /\ Len(ms) = Cardinality(MonthsOf(input))
       /\ \A i, j \in 1..Len(ms) : i < j => ms[i].month < ms[j].month
       /\ \A i \in 1..Len(ms) :
            /\ ms[i].month \in MonthsOf(input)
            /\ ms[i].monthName = MonthNames[ms[i].month % 100]
            /\ ms[i].plays = Len(InMonth(input, ms[i].month))
            /\ ms[i].minutes = RoundMinutes(SumDuration(InMonth(input, ms[i].month)))

\* C21 witness: a history that starts with the event of February and goes
\* on with two events of January is reported as January (2 plays), February
\* (1 play)
C21_Witness ==
  /\ Done /\ WellFormed(input) /\ Len(input) = 3
  /\ FormatMonth(input[1].started) = 202402
  /\ Len(report.monthlyStats) = 2
  /\ report.monthlyStats[1].month = 202401 /\ report.monthlyStats[1].plays = 2
  /\ report.monthlyStats[2].month = 202402 /\ report.monthlyStats[2].plays = 1

\* the number of events of h whose transcode_decision is d
WithDecision(h, d) == Cardinality({i \in 1..Len(h) : h[i].transcode_decision = d})

\* C22: every event is counted in the bucket of its transcode_decision, the
\* three buckets add up to totalPlays, and every event is counted once in
\* the resolution table, under unknown when it has no resolution
C22_QualityBucketsPartitionPlays ==
  Done =>
    LET q == report.qualityStats
        Res(r) == IF r.stream_video_resolution = "" THEN "unknown"
                  ELSE r.stream_video_resolution
    IN /\ q.transcode = WithDecision(input, "transcode")
       /\ q.directStream = WithDecision(input, "copy")
       /\ q.directPlay = WithDecision(input, "direct play")
       /\ q.directPlay + q.directStream + q.transcode = report.totalPlays
       /\ DOMAIN q.resolutions = {Res(input[i]) : i \in 1..Len(input)}
       /\ \A k \in DOMAIN q.resolutions :
            q.resolutions[k] = Cardinality({i \in 1..Len(input) : Res(input[i]) = k})

\* C22 witness: one event in each bucket, one of them without a resolution
C22_Witness ==
  /\ Done /\ WellFormed(input) /\ Len(input) = 3
  /\ report.qualityStats.transcode = 1
  /\ report.qualityStats.directStream = 1
  /\ report.qualityStats.directPlay = 1
  /\ DOMAIN report.qualityStats.resolutions = {"unknown", "4k", "1080"}
  /\ report.qualityStats.resolutions["unknown"] = 1

\* C27 as claimed: every entry of topDevices counts the events of exactly
\* one (player, platform) pair and its device is the full player name
C27_TopDevicesKeepPairsApart ==
  (Done /\ input # <<>> /\ WellFormed(input)) =>
    \A e \in 1..Len(report.topDevices) :
      \E i \in 1..Len(input) :
        /\ report.topDevices[e].device = input[i].player
        /\ report.topDevices[e].platform = input[i].platform
        /\ report.topDevices[e].plays =
             Cardinality({j \in 1..Len(input) :
                            /\ input[j].player = input[i].player
                            /\ input[j].platform = input[i].platform})

\* C29: for a non-empty input, 1 <= longestStreakDays <= daysActive
C29_StreakWithinDaysActive ==
  (Done /\ input # <<>>) =>
    /\ 1 <= report.longestStreakDays
    /\ report.longestStreakDays <= report.daysActive
    /\ report.daysActive = Cardinality(ActiveDays(input))

\* C29 witness: three active days, two of them consecutive
C29_Witness ==
  /\ Done /\ input # <<>> /\ WellFormed(input)
  /\ report.daysActive = 3
  /\ report.longestStreakDays = 2

\* does the list of facts or badges hold one of the given name
Has(list, name) == \E i \in 1..Len(list) : list[i].name = name

\* C30: whenever the Marathon Master, TV Fanatic, Cinema Enthusiast or
\* Content Curator badge is awarded, the fun fact Marathon Master, TV
\* Enthusiast, Movie Buff or Content Curator, respectively, is in funFacts
C30_BadgesImplyFunFacts ==
  pc = "rules done" =>
    /\ Has(report.badges, "Marathon Master") => Has(report.funFacts, "Marathon Master")
    /\ Has(report.badges, "TV Fanatic") => Has(report.funFacts, "TV Enthusiast")
    /\ Has(report.badges, "Cinema Enthusiast") => Has(report.funFacts, "Movie Buff")
    /\ Has(report.badges, "Content Curator") => Has(report.funFacts, "Content Curator")

\* C30 witness: the four badges awarded together
C30_Witness ==
  /\ pc = "rules done"
  /\ Has(report.badges, "Marathon Master")
  /\ Has(report.badges, "TV Fanatic")
  /\ Has(report.badges, "Cinema Enthusiast")
  /\ Has(report.badges, "Content Curator")
  /\ Len(report.funFacts) >= 4

(***************************************************************************)
(* TautulliService.getAllHistoryForYear: one step per get_history call.    *)
(* The page size of the code is 1000; the model scales it down and keeps   *)
(* every relation between the history size and the page size (shorter      *)
(* than a page, an exact multiple, a partial last page).                   *)
(***************************************************************************)
pageSize == 2

MaxUpstream == 5

\* the years a wrapped report is asked for
Years == {2024, 2025}

\* Math.floor(new Date(`${year}-01-01T00:00:00Z`).getTime() / 1000)
startTimestamp(y) == DaysFromCivil(y, 1, 1) * 86400

\* Math.floor(new Date(`${year}-12-31T23:59:59Z`).getTime() / 1000)
endTimestamp(y) == DaysFromCivil(y, 12, 31) * 86400 + 23 * 3600 + 59 * 60 + 59

\* the `date` values of upstream records: around both ends of 2024
Dates ==
  {startTimestamp(2024) - 1, startTimestamp(2024), startTimestamp(2024) + 15552000,
   endTimestamp(2024), endTimestamp(2024) + 1}

\* order_column 'date', order_dir 'desc'
NewestFirst(dates) ==
  \A i \in 1..Len(dates) - 1 : dates[i] >= dates[i + 1]

\* the history Tautulli holds for the user: row i carries the date dates[i]
Upstreams ==
  {[i \in 1..Len(dates) |-> [id |-> i, date |-> dates[i]]] :
     dates \in {d \in SeqsUpTo(Dates, MaxUpstream) : NewestFirst(d)}}

\* get_history with start and length: one page and the size of the whole
getUserHistory(rows, from, length) ==
  LET left == Max(0, Len(rows) - from)
      n == IF left < length THEN left ELSE length
  IN [data |-> [i \in 1..n |-> rows[from + i]], recordsFiltered |-> Len(rows)]

\* parseInt(record.date): the decimal digits of an integer give it back
parseInt(date) == date

\* the filter callback of lines 250-253
InRequestedYear(record, y) ==
  LET recordTimestamp == parseInt(record.date)
  IN recordTimestamp >= startTimestamp(y) /\ recordTimestamp <= endTimestamp(y)

\* result.data.filter(...)
YearData(data, y) ==
  LET Test(record) == InRequestedYear(record, y) IN SelectSeq(data, Test)

\* a variant that asks for a further whole page before going on
HasMoreBeyondNextPage(length, next, recordsFiltered) ==
  length = pageSize /\ next + pageSize < recordsFiltered

\* line 259, with start already advanced
HasMore(length, next, recordsFiltered) ==
  length = pageSize /\ next < recordsFiltered

\* the stats calculation is not running
StatsIdle ==
  /\ pc = "idle"
  /\ input = <<>>
  /\ history = <<>>
  /\ computed = None
  /\ overseerr = "not called"
  /\ overseerrStats = Undefined
  /\ report = None
  /\ calls = <<>>
  /\ invocation = 1
  /\ previous = None

\* lines 233-238: the locals before the loop
InitFetch ==
  /\ StatsIdle
  /\ TokensIdle
  /\ LimiterIdle
  /\ upstream \in Upstreams
  /\ year \in Years
  /\ start = 0
  /\ allData = <<>>
  /\ hasMore = TRUE
  /\ fetchPc = "loop"
  /\ pages = 0

\* lines 242-262: one pass of the loop
FetchPage ==
  /\ fetchPc = "loop"
  /\ hasMore
  /\ LET result == getUserHistory(upstream, start, pageSize)
         yearData == YearData(result.data, year)
     IN /\ allData' = allData \o yearData
        /\ start' = start + pageSize
        /\ hasMore' = HasMore(Len(result.data), start + pageSize, result.recordsFiltered)
  /\ pages' = pages + 1
  /\ UNCHANGED <<upstream, year, fetchPc, statsVars, tokenVars, limiterVars>>

\* lines 60-102: the get_history call throws and the loop is left
FetchThrows ==
  /\ fetchPc = "loop"
  /\ hasMore
  /\ fetchPc' = "threw"
  /\ pages' = pages + 1
  /\ UNCHANGED <<upstream, year, start, allData, hasMore, statsVars, tokenVars, limiterVars>>

\* line 265
ReturnAllData ==
  /\ fetchPc = "loop"
  /\ ~hasMore
  /\ fetchPc' = "returned"
  /\ UNCHANGED <<upstream, year, start, allData, hasMore, pages, statsVars, tokenVars, limiterVars>>

NextFetch ==
  \/ FetchPage
  \/ FetchThrows
  \/ ReturnAllData

SpecFetch == InitFetch /\ [][NextFetch]_vars

\* the pages that cover a history of n rows (one page for an empty history)
PagesFor(n) == Max(1, (n + pageSize - 1) \div pageSize)

MaxTokens == 1

MaxTime == 1

MaxRequests == 1

\* the (user_id, year) pairs tokens are created for
Owners == {[user_id |-> 1, year |-> 2024], [user_id |-> 1, year |-> 2025]}

\* crypto.createHash('sha256').update(token).digest('hex'): one digest per token
hashToken(token) == [sha256 |-> token]

\* generateToken: the n-th token differs from all before it
generateToken(n) == n

\* lines 56-62: expires_at of a new token: the date given or now plus
\* TOKEN_EXPIRATION_DAYS (any tick from now on), or null when neither is set
ExpiresAtChoices(t) == {<<>>} \cup {<<e>> : e \in t..MaxTime}

\* the row INSERT ... RETURNING * gives back (is_active and access_count
\* take their column defaults)
NewRow(id, owner, expiresAt) ==
  [id |-> id, token_hash |-> hashToken(generateToken(id)),
   user_id |-> owner.user_id, year |-> owner.year,
   expires_at |-> expiresAt, is_active |-> TRUE, access_count |-> 0,
   revoked_at |-> <<>>]

\* a lookup without the is_active condition
findByTokenAnyState(rows, token) ==
  LET found == {r \in rows : r.token_hash = hashToken(token)}
  IN IF found = {} THEN <<>> ELSE <<CHOOSE r \in found : TRUE>>

\* SELECT * FROM access_tokens WHERE token_hash = $1 AND is_active = true
findByToken(rows, token) ==
  LET found == {r \in rows : r.token_hash = hashToken(token) /\ r.is_active}
  IN IF found = {} THEN <<>> ELSE <<CHOOSE r \in found : TRUE>>

\* a variant without the expiry test
verifyTokenIgnoringExpiry(record, t) ==
  IF record = <<>>
    THEN [valid |-> FALSE, record |-> <<>>, reason |-> "Token not found"]
    ELSE IF ~record[1].is_active
      THEN [valid |-> FALSE, record |-> record, reason |-> "Token has been revoked"]
      ELSE [valid |-> TRUE, record |-> record, reason |-> ""]

\* lines 158-170: verifyToken once findByToken has answered with record,
\* new Date() reading t
verifyToken(record, t) ==
  IF record = <<>>
    THEN [valid |-> FALSE, record |-> <<>>, reason |-> "Token not found"]
    ELSE IF ~record[1].is_active
      THEN [valid |-> FALSE, record |-> record, reason |-> "Token has been revoked"]
      ELSE IF record[1].expires_at # <<>> /\ record[1].expires_at[1] < t
        THEN [valid |-> FALSE, record |-> record, reason |-> "Token has expired"]
        ELSE [valid |-> TRUE, record |-> record, reason |-> ""]

\* no verification yet
Unverified == [valid |-> FALSE, record |-> <<>>, reason |-> "<pending>"]

\* a request entering the route handler with :token
NewRequest(token) ==
  [token |-> token, pc |-> "findByToken", record |-> <<>>, stored |-> <<>>,
   verification |-> Unverified, decidedAt |-> 0]

InitTokens ==
  /\ StatsIdle
  /\ FetchIdle
  /\ LimiterIdle
  /\ access_tokens = {}
  /\ access_tokens_id_seq = 0
  /\ now = 0
  /\ requests = <<>>

\* time passes
Tick ==
  /\ now < MaxTime
  /\ now' = now + 1
  /\ UNCHANGED <<access_tokens, access_tokens_id_seq, requests, statsVars, fetchVars, limiterVars>>

\* AccessTokenModel.create
CreateToken ==
  /\ access_tokens_id_seq < MaxTokens
  /\ \E owner \in Owners, expiresAt \in ExpiresAtChoices(now) :
       access_tokens' =
         access_tokens \cup {NewRow(access_tokens_id_seq + 1, owner, expiresAt)}
  /\ access_tokens_id_seq' = access_tokens_id_seq + 1
  /\ UNCHANGED <<now, requests, statsVars, fetchVars, limiterVars>>

\* the row after SET is_active = false, revoked_at = CURRENT_TIMESTAMP (the
\* column is kept as null or set)
Revoked(r) == [r EXCEPT !.is_active = FALSE, !.revoked_at = <<"CURRENT_TIMESTAMP">>]

\* AccessTokenModel.revoke: WHERE id = $1
Revoke ==
  /\ \E id \in 1..MaxTokens :
       access_tokens' =
         {IF r.id = id THEN Revoked(r) ELSE r : r \in access_tokens}
  /\ UNCHANGED <<access_tokens_id_seq, now, requests, statsVars, fetchVars, limiterVars>>

\* AccessTokenModel.revokeAllForUserYear: WHERE user_id = $1 AND year = $2
\* AND is_active = true
RevokeAllForUserYear ==
  /\ \E owner \in Owners :
       access_tokens' =
         {IF r.user_id = owner.user_id /\ r.year = owner.year /\ r.is_active
            THEN Revoked(r) ELSE r : r \in access_tokens}
  /\ UNCHANGED <<access_tokens_id_seq, now, requests, statsVars, fetchVars, limiterVars>>

\* AccessTokenModel.deleteExpired: WHERE expires_at < CURRENT_TIMESTAMP
DeleteExpired ==
  /\ access_tokens' =
       {r \in access_tokens : ~(r.expires_at # <<>> /\ r.expires_at[1] < now)}
  /\ UNCHANGED <<access_tokens_id_seq, now, requests, statsVars, fetchVars, limiterVars>>

\* a client requests GET /api/wrapped/:token, with a token that was issued
\* or with one that never was (0)
StartRequest ==
  /\ Len(requests) < MaxRequests
  /\ \E token \in 0..MaxTokens : requests' = Append(requests, NewRequest(token))
  /\ UNCHANGED <<access_tokens, access_tokens_id_seq, now, statsVars, fetchVars, limiterVars>>

\* line 153: the query of findByToken is answered; stored keeps what the
\* table held for the token at that moment, whatever its state
FindByToken ==
  /\ \E i \in 1..Len(requests) :
       /\ requests[i].pc = "findByToken"
       /\ requests' =
            [requests EXCEPT ![i].pc = "verifyToken",
                             ![i].record = findByToken(access_tokens, requests[i].token),
                             ![i].stored = findByTokenAnyState(access_tokens, requests[i].token)]
  /\ UNCHANGED <<access_tokens, access_tokens_id_seq, now, statsVars, fetchVars, limiterVars>>

\* part_003 lines 155-170 and part_006 lines 89-95: verifyToken decides and
\* the route answers 403 or goes on
VerifyToken ==
  /\ \E i \in 1..Len(requests) :
       /\ requests[i].pc = "verifyToken"
       /\ LET verification == verifyToken(requests[i].record, now)
          IN requests' =
               [requests EXCEPT ![i].verification = verification,
                                ![i].decidedAt = now,
                                ![i].pc = IF verification.valid THEN "trackAccess" ELSE "403"]
  /\ UNCHANGED <<access_tokens, access_tokens_id_seq, now, statsVars, fetchVars, limiterVars>>

\* part_006 line 100, part_003 lines 125-146: the UPDATE counts the access
\* on the active row of the token, or fails and is ignored
TrackAccess ==
  /\ \E i \in 1..Len(requests), fails \in BOOLEAN :
       /\ requests[i].pc = "trackAccess"
       /\ requests' = [requests EXCEPT ![i].pc = "findById"]
       /\ access_tokens' =
            IF fails THEN access_tokens
            ELSE {IF r.token_hash = hashToken(requests[i].token) /\ r.is_active
                    THEN [r EXCEPT !.access_count = r.access_count + 1]
                    ELSE r : r \in access_tokens}
  /\ UNCHANGED <<access_tokens_id_seq, now, statsVars, fetchVars, limiterVars>>

\* part_006 lines 103-157: the stats and the user are looked up; 404 when
\* one is missing, else the stats are served
GetStats ==
  /\ \E i \in 1..Len(requests), found \in BOOLEAN :
       /\ requests[i].pc = "findById"
       /\ requests' = [requests EXCEPT ![i].pc = IF found THEN "200" ELSE "404"]
  /\ UNCHANGED <<access_tokens, access_tokens_id_seq, now, statsVars, fetchVars, limiterVars>>

NextTokens ==
  \/ Tick
  \/ CreateToken
  \/ Revoke
  \/ RevokeAllForUserYear
  \/ DeleteExpired
  \/ StartRequest
  \/ FindByToken
  \/ VerifyToken
  \/ TrackAccess
  \/ GetStats

SpecTokens == InitTokens /\ [][NextTokens]_vars

\* the requests verifyToken has decided
Decided == {i \in 1..Len(requests) : requests[i].pc \notin {"findByToken", "verifyToken"}}

\* the requests the route let past the verification
PastVerification ==
  {i \in 1..Len(requests) : requests[i].pc \in {"trackAccess", "findById", "200", "404"}}

\* the requests whose token was a revoked row of the table when findByToken
\* looked it up
ReadRevoked ==
  {i \in 1..Len(requests) :
     /\ requests[i].pc # "findByToken"
     /\ requests[i].stored # <<>>
     /\ ~requests[i].stored[1].is_active}

\* the token safety with expires_at at least `margin` ticks after the clock
\* that verifyToken read
TokenSafety(margin) ==
  /\ \A r \in access_tokens : r.revoked_at # <<>> => ~r.is_active
  /\ \A i \in Decided :
       requests[i].verification.valid =>
         /\ requests[i].record # <<>>
         /\ requests[i].record[1].is_active
         /\ requests[i].record[1].revoked_at = <<>>
         /\ \/ requests[i].record[1].expires_at = <<>>
            \/ requests[i].record[1].expires_at[1] >= requests[i].decidedAt + margin
  /\ \A i \in ReadRevoked :
       /\ ~requests[i].verification.valid
       /\ i \notin PastVerification
  /\ \A i \in PastVerification : requests[i].verification.valid

C25_RevokedTokenIsReportedRevoked ==
  \A i \in ReadRevoked \cap Decided :
    requests[i].verification =
      [valid |-> FALSE, record |-> requests[i].stored, reason |-> "Token has been revoked"]

(***************************************************************************)
(* createRedisRateLimiter over CacheService.incrWithExpiry and             *)
(* CacheService.ttl: concurrent requests of one client on one path (one    *)
(* key), one step per Redis command; each command succeeds or throws.      *)
(***************************************************************************)
max == 1

MaxHandlers == 3

\* the options the limiter is created with
options == [windowMs |-> 2000, max |-> max]

\* the key does not exist
NoKey == [value |-> 0, expire |-> <<>>]

\* TTL key: -2 without the key, -1 without an expiry, else the time left
\* (kept as the time the expiry was set to)
RedisTtl(key) ==
  IF key.value = 0 THEN 0 - 2 ELSE IF key.expire = <<>> THEN 0 - 1 ELSE key.expire[1]

\* a request entering the middleware
NewHandler ==
  [pc |-> "incr", value |-> 0, current |-> 0, failed |-> "", retryAfter |-> 0]

\* lines 75-87: with current in hand, 429 is prepared when current exceeds
\* max, else next() is called
AfterIncrWithExpiry(h, current) ==
  [h EXCEPT !.current = current,
            !.pc = IF current > options.max THEN "ttl" ELSE "next"]

InitLimiter ==
  /\ StatsIdle
  /\ FetchIdle
  /\ TokensIdle
  /\ redis = NoKey
  /\ handlers = <<>>

\* a request of the client arrives
Arrive ==
  /\ Len(handlers) < MaxHandlers
  /\ handlers' = Append(handlers, NewHandler)
  /\ UNCHANGED <<redis, statsVars, fetchVars, tokenVars>>

\* redis.ts line 169: INCR creates the key at 1 without an expiry, or adds
\* one and leaves the expiry as it is; value 1 goes on to EXPIRE, any other
\* value is returned
IncrSucceeds ==
  /\ \E i \in 1..Len(handlers) :
       /\ handlers[i].pc = "incr"
       /\ redis' = [redis EXCEPT !.value = redis.value + 1]
       /\ LET value == redis.value + 1
              h == [handlers[i] EXCEPT !.value = value]
          IN handlers' =
               [handlers EXCEPT
                  ![i] = IF value = 1 THEN [h EXCEPT !.pc = "expire"]
                         ELSE AfterIncrWithExpiry(h, value)]
  /\ UNCHANGED <<statsVars, fetchVars, tokenVars>>

\* redis.ts lines 169, 175-177: INCR throws; incrWithExpiry returns 0
IncrThrows ==
  /\ \E i \in 1..Len(handlers) :
       /\ handlers[i].pc = "incr"
       /\ handlers' =
            [handlers EXCEPT
               ![i] = AfterIncrWithExpiry([handlers[i] EXCEPT !.failed = "incr"], 0)]
  /\ UNCHANGED <<redis, statsVars, fetchVars, tokenVars>>

\* redis.ts lines 170-174: EXPIRE sets the expiry of the key if it exists;
\* incrWithExpiry returns the value
ExpireSucceeds ==
  /\ \E i \in 1..Len(handlers) :
       /\ handlers[i].pc = "expire"
       /\ redis' =
            IF redis.value = 0 THEN redis
            ELSE [redis EXCEPT !.expire = <<options.windowMs \div 1000>>]
       /\ handlers' =
            [handlers EXCEPT ![i] = AfterIncrWithExpiry(handlers[i], handlers[i].value)]
  /\ UNCHANGED <<statsVars, fetchVars, tokenVars>>

\* redis.ts lines 172, 175-177: EXPIRE throws; incrWithExpiry returns 0
ExpireThrows ==
  /\ \E i \in 1..Len(handlers) :
       /\ handlers[i].pc = "expire"
       /\ handlers' =
            [handlers EXCEPT
               ![i] = AfterIncrWithExpiry([handlers[i] EXCEPT !.failed = "expire"], 0)]
  /\ UNCHANGED <<redis, statsVars, fetchVars, tokenVars>>

\* lines 80-84 and redis.ts line 138: TTL answers and 429 is sent
TtlSucceeds ==
  /\ \E i \in 1..Len(handlers) :
       /\ handlers[i].pc = "ttl"
       /\ handlers' =
            [handlers EXCEPT ![i].pc = "429", ![i].retryAfter = RedisTtl(redis)]
  /\ UNCHANGED <<redis, statsVars, fetchVars, tokenVars>>

\* lines 80-84 and redis.ts lines 139-142: TTL throws, ttl returns -1 and
\* 429 is sent
TtlThrows ==
  /\ \E i \in 1..Len(handlers) :
       /\ handlers[i].pc = "ttl"
       /\ handlers' =
            [handlers EXCEPT ![i].pc = "429", ![i].retryAfter = 0 - 1,
                             ![i].failed = "ttl"]
  /\ UNCHANGED <<redis, statsVars, fetchVars, tokenVars>>

\* the window is over: Redis removes a key that has an expiry
KeyExpires ==
  /\ redis.value >= 1
  /\ redis.expire # <<>>
  /\ redis' = NoKey
  /\ UNCHANGED <<handlers, statsVars, fetchVars, tokenVars>>

NextLimiter ==
  \/ Arrive
  \/ IncrSucceeds
  \/ IncrThrows
  \/ ExpireSucceeds
  \/ ExpireThrows
  \/ TtlSucceeds
  \/ TtlThrows
  \/ KeyExpires

SpecLimiter == InitLimiter /\ [][NextLimiter]_vars

\* the middleware calls that have answered
Answered == {i \in 1..Len(handlers) : handlers[i].pc \in {"next", "429"}}

\* C26: the limiter fails open: a request during which a Redis command of
\* the limiter (increment, expire, ttl) failed is passed to next() and not
\* answered with 429; a request during which Redis worked is answered with
\* 429 exactly when the incremented counter of its key exceeds max.
C26_LimiterFailsOpen ==
  \A i \in Answered :
    IF handlers[i].failed # ""
      THEN handlers[i].pc = "next"
      ELSE handlers[i].pc = "429" <=> handlers[i].value > options.max

\* C28: a counter key with value >= 1 has an expiry set, whatever the
\* interleaving of the incrWithExpiry calls and whichever expire step fails
\* (the calls that have incremented and have yet to run their expire step
\* are allowed for).
C28_CounterKeysHaveExpiry ==
  (redis.value >= 1 /\ \A i \in 1..Len(handlers) : handlers[i].pc # "expire")
    => redis.expire # <<>>

====
